---- MODULE Spec2Model ----
(***************************************************************************)
(* Model of jlc.py: the gateway client (JLCClient), one sign-in attempt    *)
(* (sign_in_account), the per-account retry loop (process_single_account), *)
(* the cross-account final retry and the report of main.                   *)
(*                                                                         *)
(* Status strings of the source are written in ASCII:                      *)
(*   "unknown"         未知            "already_signed"  已签到过          *)
(*   "not_signed"      未签到          "check_failed"    检查失败          *)
(*   "sign_ok"         签到成功        "sign_failed"     签到失败          *)
(*   "voucher_ok"      领取奖励成功    "voucher_failed"  领取奖励失败      *)
(*   "token_failed"    Token提取失败   "password_error"  密码错误          *)
(*   "no_login_page"   无法进入登录页  "login_failed"    登录失败          *)
(*   "jump_failed"     跳转失败        "sign_exception"  签到异常          *)
(*   "exec_exception"  执行异常                                            *)
(***************************************************************************)
EXTENDS Integers, Sequences, FiniteSets, TLC

\* Largest balance (points, jindou) a balance endpoint answers with.
MaxBalance == 1

Balances == 0..MaxBalance

(***************************************************************************)
(* Gateway HTTP surface.  A reply is the HTTP status and the decoded JSON  *)
(* envelope; status 0 stands for a request that raised (timeout, refused). *)
(***************************************************************************)
Reply(st, ok, signed, gain, bal) ==
    [status |-> st, success |-> ok, haveSignIn |-> signed,
     gainNum |-> gain, integralVoucher |-> bal]

\* Python's None as returned by send_request.
None == Reply(0, FALSE, FALSE, 0, 0)

\* The three ways a request can end badly or well, without payload.
PlainReplies ==
    {Reply(0, FALSE, FALSE, 0, 0), Reply(500, FALSE, FALSE, 0, 0),
     Reply(200, FALSE, FALSE, 0, 0), Reply(200, TRUE, FALSE, 0, 0)}

\* send_request: the decoded body on HTTP 200, None otherwise.
send_request(reply) == IF reply.status = 200 THEN reply ELSE None

\* 'data and data.get("success")'
Succeeded(data) == data # None /\ data.success

\* JLCClient.__init__
JLCClient(access_token, secretkey) ==
    [headers |-> [token |-> access_token, secretkey |-> secretkey],
     initial_jindou |-> 0, final_jindou |-> 0, jindou_reward |-> 0,
     sign_status |-> "unknown", has_reward |-> FALSE,
     calls |-> <<>>]

\* Bookkeeping, not program state: c.calls lists the gateway operations of
\* the client in the order they were invoked.
Called(c, op) == [c EXCEPT !.calls = Append(@, op)]

\* get_user_info: [c, ret]
get_user_info(c, reply) ==
    LET data == send_request(reply)
    IN  [c |-> Called(c, "get_user_info"), ret |-> Succeeded(data)]

\* max_retries of get_points
get_points_max_retries == 5

\* Replies of the balance endpoint: a failure of any kind or a balance.
PointReplies ==
    {Reply(0, FALSE, FALSE, 0, 0), Reply(500, FALSE, FALSE, 0, 0),
     Reply(200, FALSE, FALSE, 0, 0)}
    \cup {Reply(200, TRUE, FALSE, 0, n) : n \in Balances}

\* What the re-navigation between two balance requests finds: it raises, or
\* each extractor returns a fresh value ("" stands for None).
ReExtractions ==
    [raises : BOOLEAN, token : {"", "tok2"}, secretkey : {"", "sk2"}]

\* get_points, lines 237-251: the silent try block that re-extracts the
\* credentials and overwrites the headers with whatever was found.
refresh_credentials_Overwrite(c, reext) ==
    IF reext.raises THEN c
    ELSE [c EXCEPT !.headers.token = reext.token,
                   !.headers.secretkey = reext.secretkey]

refresh_credentials(c, reext) ==
    IF reext.raises THEN c
    ELSE [c EXCEPT
            !.headers.token = IF reext.token # "" THEN reext.token ELSE @,
            !.headers.secretkey =
                IF reext.secretkey # "" THEN reext.secretkey ELSE @]

RECURSIVE get_points_loop_RenavAlways(_, _, _, _, _)
\* get_points_loop re-navigating after every failed request, the last too.
get_points_loop_RenavAlways(c, script, reext, attempt, events) ==
    IF attempt >= get_points_max_retries
    THEN [c |-> c, ret |-> 0, events |-> events]
    ELSE LET data == send_request(script[attempt + 1])
             ev   == Append(events, "request")
         IN  IF Succeeded(data)
             THEN [c |-> c, ret |-> data.integralVoucher, events |-> ev]
             ELSE get_points_loop_RenavAlways(
                      refresh_credentials(c, reext), script, reext,
                      attempt + 1, Append(ev, "renav"))

RECURSIVE get_points_loop(_, _, _, _, _)
\* The for loop of get_points; script[attempt + 1] answers request 'attempt'.
get_points_loop(c, script, reext, attempt, events) ==
    IF attempt >= get_points_max_retries
    THEN [c |-> c, ret |-> 0, events |-> events]
    ELSE LET data == send_request(script[attempt + 1])
             ev   == Append(events, "request")
         IN  IF Succeeded(data)
             THEN [c |-> c, ret |-> data.integralVoucher, events |-> ev]
             ELSE IF attempt < get_points_max_retries - 1
                  THEN get_points_loop(refresh_credentials(c, reext), script,
                                       reext, attempt + 1,
                                       Append(ev, "renav"))
                  ELSE get_points_loop(c, script, reext, attempt + 1, ev)

\* get_points: [c, ret, events]; events is the order of balance requests and
\* re-navigations of this call.
get_points(c, script, reext) ==
    get_points_loop(Called(c, "get_points"), script, reext, 0, <<>>)

\* check_sign_status recording a failed check under another status.
check_sign_status_FailureStatus(c, reply) ==
    LET data == send_request(reply)
        c1   == Called(c, "check_sign_status")
    IN  IF Succeeded(data)
        THEN IF data.haveSignIn
             THEN [c |-> [c1 EXCEPT !.sign_status = "already_signed"],
                   ret |-> "True"]
             ELSE [c |-> [c1 EXCEPT !.sign_status = "not_signed"],
                   ret |-> "False"]
        ELSE [c |-> [c1 EXCEPT !.sign_status = "login_failed"],
              ret |-> "None"]

\* check_sign_status: ret is "True", "False" or "None".
check_sign_status(c, reply) ==
    LET data == send_request(reply)
        c1   == Called(c, "check_sign_status")
    IN  IF Succeeded(data)
        THEN IF data.haveSignIn
             THEN [c |-> [c1 EXCEPT !.sign_status = "already_signed"],
                   ret |-> "True"]
             ELSE [c |-> [c1 EXCEPT !.sign_status = "not_signed"],
                   ret |-> "False"]
        ELSE [c |-> [c1 EXCEPT !.sign_status = "check_failed"],
              ret |-> "None"]

\* receive_voucher: [c, ret]
receive_voucher(c, reply) ==
    LET data == send_request(reply)
    IN  [c |-> Called(c, "receive_voucher"), ret |-> Succeeded(data)]

\* sign_in claiming the voucher after every successful sign-in.
sign_in_VoucherAlways(c, reply, vreply) ==
    LET data == send_request(reply)
        c1   == Called(c, "sign_in")
    IN  IF Succeeded(data)
        THEN LET v == receive_voucher([c1 EXCEPT !.has_reward = TRUE], vreply)
             IN  IF v.ret
                 THEN [c |-> [v.c EXCEPT !.sign_status = "voucher_ok"],
                       ret |-> TRUE]
                 ELSE [c |-> [v.c EXCEPT !.sign_status = "voucher_failed"],
                       ret |-> FALSE]
        ELSE [c |-> [c1 EXCEPT !.sign_status = "sign_failed"], ret |-> FALSE]

\* sign_in: [c, ret]; vreply answers receive_voucher if it is called.
sign_in_NoRewardFlag(c, reply, vreply) ==
    LET data == send_request(reply)
        c1   == Called(c, "sign_in")
    IN  IF Succeeded(data)
        THEN IF data.gainNum # 0
             THEN [c |-> [c1 EXCEPT !.sign_status = "sign_ok"], ret |-> TRUE]
             ELSE LET v == receive_voucher(c1, vreply)
                  IN  IF v.ret
                      THEN [c |-> [v.c EXCEPT !.sign_status = "voucher_ok"],
                            ret |-> TRUE]
                      ELSE [c |-> [v.c EXCEPT
                                     !.sign_status = "voucher_failed"],
                            ret |-> FALSE]
        ELSE [c |-> [c1 EXCEPT !.sign_status = "sign_failed"], ret |-> FALSE]

sign_in(c, reply, vreply) ==
    LET data == send_request(reply)
        c1   == Called(c, "sign_in")
    IN  IF Succeeded(data)
        THEN IF data.gainNum # 0
             THEN [c |-> [c1 EXCEPT !.sign_status = "sign_ok"], ret |-> TRUE]
             ELSE LET v == receive_voucher(
                               [c1 EXCEPT !.has_reward = TRUE], vreply)
                  IN  IF v.ret
                      THEN [c |-> [v.c EXCEPT !.sign_status = "voucher_ok"],
                            ret |-> TRUE]
                      ELSE [c |-> [v.c EXCEPT
                                     !.sign_status = "voucher_failed"],
                            ret |-> FALSE]
        ELSE [c |-> [c1 EXCEPT !.sign_status = "sign_failed"], ret |-> FALSE]

\* calculate_jindou_difference
calculate_jindou_difference(c) ==
    [Called(c, "calculate_jindou_difference") EXCEPT
        !.jindou_reward = c.final_jindou - c.initial_jindou]

\* execute_full_process checking the sign-in status before the first balance
\* query.
execute_full_process_CheckFirst(c, env) ==
    LET u == get_user_info(c, env.user_info)
    IN  IF ~u.ret THEN [c |-> u.c, ret |-> FALSE]
        ELSE
        LET k0 == check_sign_status(u.c, env.check)
            p1 == get_points(k0.c, env.points1, env.reext)
            k  == [c |-> [p1.c EXCEPT !.initial_jindou = p1.ret],
                   ret |-> k0.ret]
        IN  IF k.ret = "None" THEN [c |-> k.c, ret |-> FALSE]
            ELSE
            LET s == IF k.ret = "True" THEN [c |-> k.c, ret |-> TRUE]
                     ELSE sign_in(k.c, env.sign, env.voucher)
            IN  IF ~s.ret THEN [c |-> s.c, ret |-> FALSE]
                ELSE
                LET p2 == get_points(s.c, env.points2, env.reext)
                    c2 == [p2.c EXCEPT !.final_jindou = p2.ret]
                IN  [c |-> calculate_jindou_difference(c2), ret |-> TRUE]

\* execute_full_process going on after a failed sign_in.
execute_full_process_IgnoresSignInFailure(c, env) ==
    LET u == get_user_info(c, env.user_info)
    IN  IF ~u.ret THEN [c |-> u.c, ret |-> FALSE]
        ELSE
        LET p1 == get_points(u.c, env.points1, env.reext)
            c1 == [p1.c EXCEPT !.initial_jindou = p1.ret]
            k  == check_sign_status(c1, env.check)
        IN  IF k.ret = "None" THEN [c |-> k.c, ret |-> FALSE]
            ELSE
            LET s == IF k.ret = "True" THEN [c |-> k.c, ret |-> TRUE]
                     ELSE sign_in(k.c, env.sign, env.voucher)
                p2 == get_points(s.c, env.points2, env.reext)
                c2 == [p2.c EXCEPT !.final_jindou = p2.ret]
            IN  [c |-> calculate_jindou_difference(c2), ret |-> s.ret]

\* execute_full_process signing in whatever the check answered.
execute_full_process_AlwaysSignIn(c, env) ==
    LET u == get_user_info(c, env.user_info)
    IN  IF ~u.ret THEN [c |-> u.c, ret |-> FALSE]
        ELSE
        LET p1 == get_points(u.c, env.points1, env.reext)
            c1 == [p1.c EXCEPT !.initial_jindou = p1.ret]
            k  == check_sign_status(c1, env.check)
        IN  IF k.ret = "None" THEN [c |-> k.c, ret |-> FALSE]
            ELSE
            LET s == sign_in(k.c, env.sign, env.voucher)
            IN  IF ~s.ret THEN [c |-> s.c, ret |-> FALSE]
                ELSE
                LET p2 == get_points(s.c, env.points2, env.reext)
                    c2 == [p2.c EXCEPT !.final_jindou = p2.ret]
                IN  [c |-> calculate_jindou_difference(c2), ret |-> TRUE]

\* execute_full_process: [c, ret].  env holds the gateway's answer to each
\* request the run may issue.
execute_full_process_NeedsBalance(c, env) ==
    LET u == get_user_info(c, env.user_info)
    IN  IF ~u.ret THEN [c |-> u.c, ret |-> FALSE]
        ELSE
        LET p1 == get_points(u.c, env.points1, env.reext)
            c1 == [p1.c EXCEPT !.initial_jindou = p1.ret]
            k  == check_sign_status(c1, env.check)
        IN  IF k.ret = "None" THEN [c |-> k.c, ret |-> FALSE]
            ELSE
            LET s == IF k.ret = "True" THEN [c |-> k.c, ret |-> TRUE]
                     ELSE sign_in(k.c, env.sign, env.voucher)
            IN  IF ~s.ret THEN [c |-> s.c, ret |-> FALSE]
                ELSE
                LET p2 == get_points(s.c, env.points2, env.reext)
                    c2 == [p2.c EXCEPT !.final_jindou = p2.ret]
                IN  [c |-> calculate_jindou_difference(c2),
                     ret |-> Len(p2.events) < 2 * get_points_max_retries - 1]

execute_full_process(c, env) ==
    LET u == get_user_info(c, env.user_info)
    IN  IF ~u.ret THEN [c |-> u.c, ret |-> FALSE]
        ELSE
        LET p1 == get_points(u.c, env.points1, env.reext)
            c1 == [p1.c EXCEPT !.initial_jindou = p1.ret]
            k  == check_sign_status(c1, env.check)
        IN  IF k.ret = "None" THEN [c |-> k.c, ret |-> FALSE]
            ELSE
            LET s == IF k.ret = "True" THEN [c |-> k.c, ret |-> TRUE]
                     ELSE sign_in(k.c, env.sign, env.voucher)
            IN  IF ~s.ret THEN [c |-> s.c, ret |-> FALSE]
                ELSE
                LET p2 == get_points(s.c, env.points2, env.reext)
                    c2 == [p2.c EXCEPT !.final_jindou = p2.ret]
                IN  [c |-> calculate_jindou_difference(c2), ret |-> TRUE]

\* Balance scripts: request 1..k fail with reply f, the later ones answer n.
FailThenOk(k, f, n) ==
    [i \in 1..get_points_max_retries |->
        IF i <= k THEN f ELSE Reply(200, TRUE, FALSE, 0, n)]

\* Every sequence of replies the five balance requests can get.
PointScripts == [1..get_points_max_retries -> PointReplies]

\* The environments of one execute_full_process run, over the given plain
\* replies, balance scripts and re-extraction outcomes.
ClientEnvsOver(plain, scripts, reexts) ==
    [user_info : plain, points1 : scripts, reext : reexts,
     check : plain \cup {Reply(200, TRUE, TRUE, 0, 0)},
     sign : plain \cup {Reply(200, TRUE, FALSE, 1, 0)},
     voucher : plain, points2 : scripts]

ClientEnvs ==
    ClientEnvsOver(PlainReplies,
                   {FailThenOk(k, None, n) :
                        k \in {0, 1, get_points_max_retries}, n \in Balances},
                   ReExtractions)

(***************************************************************************)
(* One attempt: sign_in_account.                                           *)
(***************************************************************************)
\* The result record of sign_in_account, lines 676-696.
NewResult(account_index, retry_count, is_final_retry) ==
    [account_index |-> account_index, nickname |-> "unknown",
     oshwhub_status |-> "unknown", oshwhub_success |-> FALSE,
     initial_points |-> 0, final_points |-> 0, points_reward |-> 0,
     reward_results |-> <<>>,
     jindou_status |-> "unknown", jindou_success |-> FALSE,
     initial_jindou |-> 0, final_jindou |-> 0, jindou_reward |-> 0,
     has_jindou_reward |-> FALSE,
     token_extracted |-> FALSE, secretkey_extracted |-> FALSE,
     retry_count |-> retry_count, is_final_retry |-> is_final_retry,
     password_error |-> FALSE]

\* 'except Exception' of sign_in_account, lines 958-960.
ExecException(r) == [r EXCEPT !.oshwhub_status = "exec_exception"]

\* What the browser shows during login, in the order the code looks at it.
LoginEnvs ==
    [login_page : BOOLEAN, inputs_found : BOOLEAN, button_found : BOOLEAN,
     pw_error_after_submit : BOOLEAN, slider_wait_raises : BOOLEAN,
     pw_error_after_slide : BOOLEAN, jumped : BOOLEAN]

\* Lines 698-829: login, password-error checks, slider, redirect.
\* [r, done]: done when the attempt returns from this phase.
LoginPhase(r, e) ==
    IF ~e.login_page
    THEN [r |-> [r EXCEPT !.oshwhub_status = "no_login_page"], done |-> TRUE]
    ELSE IF ~e.inputs_found \/ ~e.button_found
    THEN [r |-> [r EXCEPT !.oshwhub_status = "login_failed"], done |-> TRUE]
    ELSE IF e.pw_error_after_submit
    THEN [r |-> [r EXCEPT !.password_error = TRUE,
                          !.oshwhub_status = "password_error"],
          done |-> TRUE]
    ELSE IF e.slider_wait_raises
    THEN [r |-> ExecException(r), done |-> TRUE]
    ELSE IF e.pw_error_after_slide
    THEN [r |-> [r EXCEPT !.password_error = TRUE,
                          !.oshwhub_status = "password_error"],
          done |-> TRUE]
    ELSE IF ~e.jumped
    THEN [r |-> [r EXCEPT !.oshwhub_status = "jump_failed"], done |-> TRUE]
    ELSE [r |-> r, done |-> FALSE]

\* What the platform shows after login.  sign: the "already signed" marker
\* is there; the click is verified; the click is verified and the wait that
\* follows raises; five clicks are not verified.
PlatformEnvs ==
    [nickname : {"", "n*"}, points1 : Balances, pre_sign_raises : BOOLEAN,
     sign : {"already", "clicked_ok", "clicked_ok_wait_raises",
             "clicked_fail"},
     gifts : {<<>>, <<"gift">>}, post_sign_raises : BOOLEAN,
     points2 : Balances]

\* Lines 855-904: the platform sign-in itself.
PlatformSignIn(r, e) ==
    CASE e.sign = "already" ->
            [r EXCEPT !.oshwhub_status = "already_signed",
                      !.oshwhub_success = TRUE, !.reward_results = e.gifts]
      [] e.sign = "clicked_ok" ->
            [r EXCEPT !.oshwhub_status = "sign_ok",
                      !.oshwhub_success = TRUE, !.reward_results = e.gifts]
      [] e.sign = "clicked_ok_wait_raises" ->
            [r EXCEPT !.oshwhub_status = "sign_exception",
                      !.oshwhub_success = TRUE]
      [] OTHER -> [r EXCEPT !.oshwhub_status = "sign_failed"]

\* Lines 831-920: nickname, balance before, platform sign-in, balance after,
\* points delta.  [r, done]
PlatformPhase(r, e) ==
    LET r1 == [r EXCEPT !.nickname =
                            IF e.nickname # "" THEN e.nickname ELSE "unknown",
                        !.initial_points = e.points1]
        r2 == PlatformSignIn(r1, e)
        r3 == [r2 EXCEPT !.final_points = e.points2]
        r4 == [r3 EXCEPT !.points_reward = r3.final_points - r3.initial_points]
    IN  IF e.pre_sign_raises THEN [r |-> ExecException(r1), done |-> TRUE]
        ELSE IF e.post_sign_raises
        THEN [r |-> ExecException(r2), done |-> TRUE]
        ELSE [r |-> r4, done |-> FALSE]

\* No JLCClient was constructed.
NoClient == [headers |-> [token |-> "", secretkey |-> ""]]

\* The gateway side of an attempt: navigation, what the two extractors
\* return ("" stands for None) and the gateway's answers.
GatewayEnvsOver(clientEnvs) ==
    [nav_raises : BOOLEAN, access_token : {"", "tok1"},
     secretkey : {"", "sk1"}, client : clientEnvs]

AttemptClientEnvs ==
    ClientEnvsOver({None, Reply(200, TRUE, FALSE, 0, 0)},
                   {FailThenOk(k, None, n) :
                        k \in {0, get_points_max_retries}, n \in Balances},
                   {[raises |-> FALSE, token |-> "tok2", secretkey |-> ""]})

GatewayEnvs == GatewayEnvsOver(AttemptClientEnvs)

\* GatewayPhase giving up the whole attempt when a credential is missing.
GatewayPhase_AbortOnMissingToken(r, e) ==
    IF e.nav_raises \/ e.access_token = "" \/ e.secretkey = ""
    THEN [r |-> [ExecException(r) EXCEPT !.jindou_status = "token_failed"],
          client |-> NoClient,
          extraction |-> IF e.nav_raises THEN "not_reached" ELSE "failed"]
    ELSE
    LET x == execute_full_process(
                 JLCClient(e.access_token, e.secretkey), e.client)
    IN  [r |-> [r EXCEPT !.token_extracted = TRUE,
                         !.secretkey_extracted = TRUE,
                         !.jindou_success = x.ret,
                         !.jindou_status = x.c.sign_status,
                         !.initial_jindou = x.c.initial_jindou,
                         !.final_jindou = x.c.final_jindou,
                         !.jindou_reward = x.c.jindou_reward,
                         !.has_jindou_reward = x.c.has_reward],
         client |-> x.c, extraction |-> "ok"]

\* Lines 922-956: gateway navigation, credential extraction, gateway sign-in.
\* [r, client, extraction]: the client the attempt constructed (NoClient if
\* none) and how the extraction ended ("not_reached", "failed", "ok").
GatewayPhase(r, e) ==
    IF e.nav_raises
    THEN [r |-> ExecException(r), client |-> NoClient,
          extraction |-> "not_reached"]
    ELSE
    LET r1 == [r EXCEPT !.token_extracted = (e.access_token # ""),
                        !.secretkey_extracted = (e.secretkey # "")]
    IN  IF e.access_token # "" /\ e.secretkey # ""
        THEN LET x == execute_full_process(
                          JLCClient(e.access_token, e.secretkey), e.client)
             IN  [r |-> [r1 EXCEPT !.jindou_success = x.ret,
                                   !.jindou_status = x.c.sign_status,
                                   !.initial_jindou = x.c.initial_jindou,
                                   !.final_jindou = x.c.final_jindou,
                                   !.jindou_reward = x.c.jindou_reward,
                                   !.has_jindou_reward = x.c.has_reward],
                  client |-> x.c, extraction |-> "ok"]
        ELSE [r |-> [r1 EXCEPT !.jindou_status = "token_failed"],
              client |-> NoClient, extraction |-> "failed"]

\* sign_in_account: the record the attempt returns in environment env.
sign_in_account(account_index, retry_count, is_final_retry, env) ==
    LET l == LoginPhase(NewResult(account_index, retry_count, is_final_retry),
                        env.login)
    IN  IF l.done THEN l.r
        ELSE LET p == PlatformPhase(l.r, env.platform)
             IN  IF p.done THEN p.r
                 ELSE GatewayPhase(p.r, env.gateway).r

(***************************************************************************)
(* The run: main, process_single_account and the final retry.              *)
(***************************************************************************)
\* Most accounts given on the command line.
NumAccounts == 2

\* max_retries of process_single_account
account_max_retries == 3

VARIABLES
    total_accounts,  \* main: len(usernames)
    phase,           \* main: "parse", "process", "tier1", "select",
                     \*       "final_retry", "report", "done", "exited"
    all_results,     \* main: the merged records of the accounts processed
    account,         \* main: i, the account process_single_account runs for
    attempt,         \* process_single_account: the loop index
    merged_result,   \* process_single_account: merged_result
    merged_success,  \* process_single_account: merged_success
    failed_accounts, \* final retry: the accounts still to be retried
    report,          \* main: the lists of the summary
    hist,            \* bookkeeping: per account, the attempts made so far
    argv,            \* main: sys.argv, each argument as its list of
                     \*       comma-separated pieces
    enable_failure_exit,  \* main: enable_failure_exit
    total_points_reward,  \* main: total_points_reward
    total_jindou_reward,  \* main: total_jindou_reward
    exit_code,       \* main: the codes given to sys.exit so far
    fcall,           \* bookkeeping: the call made of a stand-alone function
                     \*              and what it returned
    result,          \* sign_in_account: the result record
    apc,             \* sign_in_account: "start", "logged_in", "platform_done",
                     \*                  "returned"
    platform_result, \* bookkeeping: result as the platform phase left it
    signed_status,   \* bookkeeping: the status lines 855-904 left, "none"
                     \*              while they have not run
    attempt_client,  \* sign_in_account: jlc_client
    extraction,      \* bookkeeping: how the credential extraction ended
    client,          \* a JLCClient
    call,            \* bookkeeping: the call made on client and what it returned
    browsers,        \* the browser instances running: [id, attempt]
    created,         \* bookkeeping: how many browsers were created so far
    calls_made,      \* bookkeeping: how many sign_in_account calls were started
    driver,          \* sign_in_account: driver (a browser id, 0 before the first)
    elp_driver,      \* ensure_login_page: driver
    restarts,        \* ensure_login_page: restarts
    bpc,             \* sign_in_account: "idle" (not running),
                     \*                  "ensure_login_page", "login_steps",
                     \*                  "finally"
    outcome          \* how the last sign_in_account call ended: "none",
                     \*                  "returned", "raised"

runVars == <<total_accounts, phase, all_results, account, attempt,
             merged_result, merged_success, failed_accounts, report, hist>>
attemptVars == <<result, apc, platform_result, signed_status, attempt_client,
                 extraction>>
clientVars == <<client, call>>
browserVars == <<browsers, created, calls_made, driver, elp_driver, restarts,
                 bpc, outcome>>
mainVars == <<argv, enable_failure_exit, total_points_reward,
              total_jindou_reward, exit_code>>
vars == <<runVars, attemptVars, clientVars, browserVars, mainVars, fcall>>

\* should_retry looking at the platform success only.
should_retry_PlatformOnly(ms, password_error) ==
    ~ms.oshwhub /\ ~password_error

\* should_retry
should_retry(ms, password_error) ==
    (~ms.oshwhub \/ ~ms.jindou) /\ ~password_error

\* merged_result of process_single_account, lines 975-995.
NewMerged(account_index) == NewResult(account_index, 0, FALSE)

\* process_single_account, lines 1002-1007: the attempt reported a password
\* error.
MergePasswordError_ResetsPlatform(m) ==
    [m EXCEPT !.password_error = TRUE, !.oshwhub_status = "password_error",
              !.nickname = "unknown", !.oshwhub_success = FALSE,
              !.points_reward = 0]

MergePasswordError(m) ==
    [m EXCEPT !.password_error = TRUE, !.oshwhub_status = "password_error",
              !.nickname = "unknown"]

\* Lines 1027-1035 and 1129-1137: nickname and the extraction flags.
MergeOther(m, r) ==
    [m EXCEPT
        !.nickname = IF @ = "unknown" /\ r.nickname # "unknown"
                     THEN r.nickname ELSE @,
        !.token_extracted = IF ~@ /\ r.token_extracted THEN TRUE ELSE @,
        !.secretkey_extracted =
            IF ~@ /\ r.secretkey_extracted THEN TRUE ELSE @]

\* MergeOshwhub overwriting on every platform success.
MergeOshwhub_NoGuard(m, r, have) ==
    IF r.oshwhub_success
    THEN [m EXCEPT !.oshwhub_status = r.oshwhub_status,
                   !.initial_points = r.initial_points,
                   !.final_points = r.final_points,
                   !.points_reward = r.points_reward,
                   !.reward_results = r.reward_results]
    ELSE m

\* Lines 1009-1016 and 1110-1116, given whether the merge already has the
\* platform success.
MergeOshwhub(m, r, have) ==
    IF r.oshwhub_success /\ ~have
    THEN [m EXCEPT !.oshwhub_status = r.oshwhub_status,
                   !.initial_points = r.initial_points,
                   !.final_points = r.final_points,
                   !.points_reward = r.points_reward,
                   !.reward_results = r.reward_results]
    ELSE m

\* Lines 1018-1025 and 1120-1126, given whether the merge already has the
\* gateway success.
MergeJindou(m, r, have) ==
    IF r.jindou_success /\ ~have
    THEN [m EXCEPT !.jindou_status = r.jindou_status,
                   !.initial_jindou = r.initial_jindou,
                   !.final_jindou = r.final_jindou,
                   !.jindou_reward = r.jindou_reward,
                   !.has_jindou_reward = r.has_jindou_reward]
    ELSE m

\* MergeSuccess taking the flags of the latest attempt.
MergeSuccess_Overwrite(ms, r) ==
    [oshwhub |-> r.oshwhub_success, jindou |-> r.jindou_success]

\* Lines 1010-1011 and 1019-1020: the success flags after merging r.
MergeSuccess(ms, r) ==
    [oshwhub |-> IF r.oshwhub_success /\ ~ms.oshwhub THEN TRUE ELSE ms.oshwhub,
     jindou  |-> IF r.jindou_success /\ ~ms.jindou THEN TRUE ELSE ms.jindou]

\* Lines 1009-1038: merge of a tier-1 attempt without password error.
MergeTier1(m, ms, r) ==
    [MergeOther(MergeJindou(MergeOshwhub(m, r, ms.oshwhub), r, ms.jindou), r)
        EXCEPT !.retry_count = r.retry_count]

\* Lines 1047-1049: the success fields of the record returned.
Finalize(m, ms) ==
    [m EXCEPT !.oshwhub_success = ms.oshwhub, !.jindou_success = ms.jindou]

\* MergeFinalRetry copying the fields of a new success without raising the
\* success flags.
MergeFinalRetry_FlagsNotRaised(orig, fr, prev) ==
    IF fr.password_error
    THEN [MergePasswordError(orig) EXCEPT !.is_final_retry = TRUE,
                                          !.retry_count = prev + 1]
    ELSE [MergeOther(MergeJindou(MergeOshwhub(orig, fr, orig.oshwhub_success),
                                 fr, orig.jindou_success), fr)
             EXCEPT !.is_final_retry = TRUE, !.retry_count = prev + 1]

\* Lines 1096-1140: merge of the final-retry attempt fr into the account's
\* record; prev is previous_retry_count.
MergeFinalRetry_PasswordErrorKeepsCount(orig, fr, prev) ==
    IF fr.password_error
    THEN [MergePasswordError(orig) EXCEPT !.is_final_retry = TRUE]
    ELSE
    LET m1 == [MergeOshwhub(orig, fr, orig.oshwhub_success) EXCEPT
                  !.oshwhub_success =
                      IF fr.oshwhub_success /\ ~@ THEN TRUE ELSE @]
        m2 == [MergeJindou(m1, fr, orig.jindou_success) EXCEPT
                  !.jindou_success =
                      IF fr.jindou_success /\ ~@ THEN TRUE ELSE @]
    IN  [MergeOther(m2, fr) EXCEPT !.is_final_retry = TRUE,
                                   !.retry_count = prev + 1]

MergeFinalRetry(orig, fr, prev) ==
    IF fr.password_error
    THEN [MergePasswordError(orig) EXCEPT !.is_final_retry = TRUE,
                                          !.retry_count = prev + 1]
    ELSE
    LET m1 == [MergeOshwhub(orig, fr, orig.oshwhub_success) EXCEPT
                  !.oshwhub_success =
                      IF fr.oshwhub_success /\ ~@ THEN TRUE ELSE @]
        m2 == [MergeJindou(m1, fr, orig.jindou_success) EXCEPT
                  !.jindou_success =
                      IF fr.jindou_success /\ ~@ THEN TRUE ELSE @]
    IN  [MergeOther(m2, fr) EXCEPT !.is_final_retry = TRUE,
                                   !.retry_count = prev + 1]

\* NeedsFinalRetry without the password-error exclusion.
NeedsFinalRetry_NoPasswordCheck(r) ==
    ~r.oshwhub_success \/ ~r.jindou_success

\* Lines 1062 and 1305: the record still lacks a success and has no password
\* error.
NeedsFinalRetry(r) ==
    (~r.oshwhub_success \/ ~r.jindou_success) /\ ~r.password_error

\* SelectFailedAccounts keeping the first failed account only.
SelectFailedAccounts_OnlyFirst(results) ==
    LET entries == [i \in 1..Len(results) |->
                       [index |-> i - 1,
                        account_index |-> results[i].account_index,
                        previous_retry_count |-> results[i].retry_count]]
        Failed(e) == NeedsFinalRetry(results[e.index + 1])
        failed == SelectSeq(entries, Failed)
    IN  IF failed = <<>> THEN <<>> ELSE <<Head(failed)>>

\* SelectFailedAccounts selecting every record that lacks a success.
SelectFailedAccounts_IgnorePasswordError(results) ==
    LET entries == [i \in 1..Len(results) |->
                       [index |-> i - 1,
                        account_index |-> results[i].account_index,
                        previous_retry_count |-> results[i].retry_count]]
        Failed(e) == \/ ~results[e.index + 1].oshwhub_success
                     \/ ~results[e.index + 1].jindou_success
    IN  SelectSeq(entries, Failed)

\* Lines 1060-1069: failed_accounts (username and password are looked up by
\* account_index and left out).
SelectFailedAccounts(results) ==
    LET entries == [i \in 1..Len(results) |->
                       [index |-> i - 1,
                        account_index |-> results[i].account_index,
                        previous_retry_count |-> results[i].retry_count]]
        Failed(e) == NeedsFinalRetry(results[e.index + 1])
    IN  SelectSeq(entries, Failed)

\* account_index of every record of a list
AccountIndexes(results) ==
    [i \in 1..Len(results) |-> results[i].account_index]

\* Summary listing password-error accounts among the failed ones too.
Summary_FailedIncludesPasswordError(results) ==
    LET PasswordError(r) == r.password_error
        Failed(r) == ~r.oshwhub_success \/ ~r.jindou_success
        NoOshwhub(r) == ~r.oshwhub_success
        NoJindou(r) == ~r.jindou_success
    IN  [password_error_accounts |->
             AccountIndexes(SelectSeq(results, PasswordError)),
         failed_accounts |-> AccountIndexes(SelectSeq(results, Failed)),
         failed_oshwhub |-> AccountIndexes(SelectSeq(results, NoOshwhub)),
         failed_jindou |-> AccountIndexes(SelectSeq(results, NoJindou)),
         oshwhub_success_count |->
             Len(results) - Len(SelectSeq(results, NoOshwhub)),
         jindou_success_count |->
             Len(results) - Len(SelectSeq(results, NoJindou))]

Summary_CountsPasswordErrorRecords(results) ==
    LET PasswordError(r) == r.password_error
        NoOshwhub(r) == ~r.oshwhub_success /\ ~r.password_error
        NoJindou(r) == ~r.jindou_success /\ ~r.password_error
        Oshwhub(r) == r.oshwhub_success
        Jindou(r) == r.jindou_success
    IN  [password_error_accounts |->
             AccountIndexes(SelectSeq(results, PasswordError)),
         failed_accounts |->
             AccountIndexes(SelectSeq(results, NeedsFinalRetry)),
         failed_oshwhub |-> AccountIndexes(SelectSeq(results, NoOshwhub)),
         failed_jindou |-> AccountIndexes(SelectSeq(results, NoJindou)),
         oshwhub_success_count |-> Len(SelectSeq(results, Oshwhub)),
         jindou_success_count |-> Len(SelectSeq(results, Jindou))]

\* main, lines 1326-1341, 1384-1387 and 1410-1412: the account lists and the
\* two success counts of the summary; a record is counted as successful
\* only in the branch of the records without password error.
Summary(results) ==
    LET PasswordError(r) == r.password_error
        NoOshwhub(r) == ~r.oshwhub_success /\ ~r.password_error
        NoJindou(r) == ~r.jindou_success /\ ~r.password_error
        Oshwhub(r) == r.oshwhub_success /\ ~r.password_error
        Jindou(r) == r.jindou_success /\ ~r.password_error
    IN  [password_error_accounts |->
             AccountIndexes(SelectSeq(results, PasswordError)),
         failed_accounts |->
             AccountIndexes(SelectSeq(results, NeedsFinalRetry)),
         failed_oshwhub |-> AccountIndexes(SelectSeq(results, NoOshwhub)),
         failed_jindou |-> AccountIndexes(SelectSeq(results, NoJindou)),
         oshwhub_success_count |-> Len(SelectSeq(results, Oshwhub)),
         jindou_success_count |-> Len(SelectSeq(results, Jindou))]

NoReport ==
    [password_error_accounts |-> <<>>, failed_accounts |-> <<>>,
     failed_oshwhub |-> <<>>, failed_jindou |-> <<>>,
     oshwhub_success_count |-> 0, jindou_success_count |-> 0]

\* Bookkeeping of the attempts of one account: how many sign_in_account calls
\* were made, and the number of the first call that returned a password
\* error, platform success, gateway success (0: none yet).
NoHistory ==
    [calls |-> 0, pw_at |-> 0, first_oshwhub |-> 0, first_jindou |-> 0]

Noted(h, r) ==
    [calls |-> h.calls + 1,
     pw_at |-> IF h.pw_at = 0 /\ r.password_error
               THEN h.calls + 1 ELSE h.pw_at,
     first_oshwhub |-> IF h.first_oshwhub = 0 /\ r.oshwhub_success
                       THEN h.calls + 1 ELSE h.first_oshwhub,
     first_jindou |-> IF h.first_jindou = 0 /\ r.jindou_success
                      THEN h.calls + 1 ELSE h.first_jindou]

(***************************************************************************)
(* The environments the run is explored in.  Per attempt: the login        *)
(* succeeds, shows the password error or never redirects; the platform     *)
(* shows the "already signed" marker or refuses the click; the extractors  *)
(* find both credentials or no token; the gateway reports "already signed" *)
(* or fails the check.                                                     *)
(***************************************************************************)
LoginOk ==
    [login_page |-> TRUE, inputs_found |-> TRUE, button_found |-> TRUE,
     pw_error_after_submit |-> FALSE, slider_wait_raises |-> FALSE,
     pw_error_after_slide |-> FALSE, jumped |-> TRUE]

\* Platform side: balance b before, c after.
PlatformEnv(s, b, c) ==
    [nickname |-> "n*", points1 |-> b, pre_sign_raises |-> FALSE,
     sign |-> s, gifts |-> <<>>, post_sign_raises |-> FALSE, points2 |-> c]

\* Gateway side: token t extracted, check answered by k, balance b before,
\* c after.
GatewayEnv(t, k, b, c) ==
    [nav_raises |-> FALSE, access_token |-> t, secretkey |-> "sk1",
     client |->
        [user_info |-> Reply(200, TRUE, FALSE, 0, 0),
         points1 |-> FailThenOk(0, None, b),
         reext |-> [raises |-> FALSE, token |-> "", secretkey |-> ""],
         check |-> k, sign |-> None, voucher |-> None,
         points2 |-> FailThenOk(0, None, c)]]

\* One account: balances go from 0 to 1 or from 1 to 0; the page-load wait
\* after the platform sign-in may raise.
AccountEnvs ==
    [login : {LoginOk, [LoginOk EXCEPT !.pw_error_after_submit = TRUE],
              [LoginOk EXCEPT !.jumped = FALSE]},
     platform : {PlatformEnv(s, b, 1 - b) :
                    s \in {"already", "clicked_fail"}, b \in {0, 1}}
                \cup {[PlatformEnv("already", 0, 1) EXCEPT
                          !.post_sign_raises = TRUE]},
     gateway : {GatewayEnv(t, k, b, 1 - b) :
                    t \in {"", "tok1"},
                    k \in {None, Reply(200, TRUE, TRUE, 0, 0)},
                    b \in {0, 1}}]

\* Several accounts: balances go from 0 to 1.
RunEnvs ==
    [login : {LoginOk, [LoginOk EXCEPT !.pw_error_after_submit = TRUE]},
     platform : {PlatformEnv(s, 0, 1) : s \in {"already", "clicked_fail"}},
     gateway : {GatewayEnv("tok1", k, 0, 1) :
                    k \in {None, Reply(200, TRUE, TRUE, 0, 0)}}]

(***************************************************************************)
(* push_summary: the push channels in the order of the code, each with the *)
(* environment variables that configure it.  "" stands for a variable that *)
(* is unset or empty: both are false in the tests of the code.             *)
(***************************************************************************)
Channels ==
    <<"telegram", "wechat", "dingtalk", "pushplus", "serverchan",
      "serverchan3", "coolpush", "custom">>

ChannelVars(ch) ==
    CASE ch = "telegram" -> {"TELEGRAM_BOT_TOKEN", "TELEGRAM_CHAT_ID"}
      [] ch = "wechat" -> {"WECHAT_WEBHOOK_KEY"}
      [] ch = "dingtalk" -> {"DINGTALK_WEBHOOK"}
      [] ch = "pushplus" -> {"PUSHPLUS_TOKEN"}
      [] ch = "serverchan" -> {"SERVERCHAN_SCKEY"}
      [] ch = "serverchan3" -> {"SERVERCHAN3_SCKEY"}
      [] ch = "coolpush" -> {"COOLPUSH_SKEY"}
      [] OTHER -> {"CUSTOM_WEBHOOK"}

ChannelSet == {Channels[k] : k \in DOMAIN Channels}

Environs == [UNION {ChannelVars(ch) : ch \in ChannelSet} -> {"", "v"}]

\* The test in front of a channel: all its variables are set.
Configured(ch, environ) == \A v \in ChannelVars(ch) : environ[v] # ""

\* What a delivery may do: answer 200 (code 0 for serverchan3), answer
\* something else, raise.
AllDelivered == [ch \in ChannelSet |-> "ok"]

Nets ==
    {AllDelivered, [ch \in ChannelSet |-> "raises"]}
        \cup {[AllDelivered EXCEPT ![ch] = d] :
                 ch \in ChannelSet, d \in {"refused", "raises"}}

\* What log() appends to summary_logs after a delivery: the seven channels
\* in bare try/except log a success only, serverchan3 logs every outcome.
PushLog(ch, delivery, logs) ==
    IF delivery = "ok" THEN Append(logs, <<ch, "pushed">>)
    ELSE IF ch = "serverchan3" THEN Append(logs, <<ch, "failed">>)
    ELSE logs

RECURSIVE push_channels_StopAtFailure(_, _, _, _)
push_channels_StopAtFailure(k, environ, net, acc) ==
    IF k > Len(Channels) THEN acc
    ELSE IF ~Configured(Channels[k], environ)
    THEN push_channels_StopAtFailure(k + 1, environ, net, acc)
    ELSE IF net[Channels[k]] = "raises"
    THEN [acc EXCEPT !.attempted = Append(@, Channels[k]), !.raised = TRUE]
    ELSE push_channels_StopAtFailure(k + 1, environ, net,
             [acc EXCEPT !.attempted = Append(@, Channels[k]),
                         !.summary_logs =
                             PushLog(Channels[k], net[Channels[k]], @)])

\* The eight blocks of push_summary from the k-th on: a block is entered if
\* its channel is configured, and whatever the delivery does, exception
\* included, the next block follows.
RECURSIVE push_channels(_, _, _, _)
push_channels(k, environ, net, acc) ==
    IF k > Len(Channels) THEN acc
    ELSE IF ~Configured(Channels[k], environ)
    THEN push_channels(k + 1, environ, net, acc)
    ELSE push_channels(k + 1, environ, net,
             [acc EXCEPT !.attempted = Append(@, Channels[k]),
                         !.summary_logs =
                             PushLog(Channels[k], net[Channels[k]], @)])

push_summary(summary_logs, environ, net) ==
    IF summary_logs = <<>>
    THEN [attempted |-> <<>>, summary_logs |-> summary_logs,
          raised |-> FALSE]
    ELSE push_channels(1, environ, net,
             [attempted |-> <<>>, summary_logs |-> summary_logs,
              raised |-> FALSE])

\* summary_logs when main calls push_summary: in_summary is set before the
\* report is logged, so the list holds the lines of the report.
ReportLogs == <<<<"main", "summary">>>>

\* The environments main is run in: no channel configured, all of them.
MainEnvirons ==
    {[v \in UNION {ChannelVars(ch) : ch \in ChannelSet} |-> x] :
        x \in {"", "v"}}

(***************************************************************************)
(* with_retry: the wrapped function is given by what its successive        *)
(* invocations do: return None, raise, return a value.                     *)
(***************************************************************************)
with_retry_max_retries == 5

FuncOutcomes == {"None", "raises", "v1", "v2"}

FuncScripts == [1..(with_retry_max_retries + 1) -> FuncOutcomes]

RECURSIVE wrapper_loop_Propagates(_, _)
wrapper_loop_Propagates(script, iteration) ==
    IF iteration >= with_retry_max_retries
    THEN [ret |-> "None", invocations |-> iteration, raised |-> FALSE]
    ELSE IF script[iteration + 1] = "raises"
    THEN [ret |-> "None", invocations |-> iteration + 1, raised |-> TRUE]
    ELSE IF script[iteration + 1] # "None"
    THEN [ret |-> script[iteration + 1], invocations |-> iteration + 1,
          raised |-> FALSE]
    ELSE wrapper_loop_Propagates(script, iteration + 1)

\* The loop of wrapper from the given iteration on: every iteration invokes
\* the function once.
RECURSIVE wrapper_loop(_, _)
wrapper_loop(script, iteration) ==
    IF iteration >= with_retry_max_retries
    THEN [ret |-> "None", invocations |-> iteration, raised |-> FALSE]
    ELSE IF script[iteration + 1] \notin {"None", "raises"}
    THEN [ret |-> script[iteration + 1], invocations |-> iteration + 1,
          raised |-> FALSE]
    ELSE wrapper_loop(script, iteration + 1)

wrapper(script) == wrapper_loop(script, 0)

(***************************************************************************)
(* The platform sign-in block of sign_in_account in detail: the first look *)
(* for the marker and the loop that clicks the button.  An iteration of    *)
(* the loop either makes no click (the button is not clickable, the click  *)
(* raises), or clicks and finds the marker, or clicks and does not find it *)
(* (or the refresh or the wait in between raises).                         *)
(***************************************************************************)
sign_max_attempts == 5

ClickOutcomes == {"no_click", "clicked_marker", "clicked_no_marker"}

ClickScripts == [1..(sign_max_attempts + 1) -> ClickOutcomes]

RECURSIVE click_loop_NoLimit(_, _, _)
click_loop_NoLimit(script, iteration, clicks) ==
    IF iteration >= Len(script)
    THEN [signed |-> FALSE, clicks |-> clicks]
    ELSE IF script[iteration + 1] = "no_click"
    THEN click_loop_NoLimit(script, iteration + 1, clicks)
    ELSE IF script[iteration + 1] = "clicked_marker"
    THEN [signed |-> TRUE, clicks |-> clicks + 1]
    ELSE click_loop_NoLimit(script, iteration + 1, clicks + 1)

RECURSIVE click_loop(_, _, _)
click_loop(script, iteration, clicks) ==
    IF iteration >= sign_max_attempts
    THEN [signed |-> FALSE, clicks |-> clicks]
    ELSE IF script[iteration + 1] = "no_click"
    THEN click_loop(script, iteration + 1, clicks)
    ELSE IF script[iteration + 1] = "clicked_marker"
    THEN [signed |-> TRUE, clicks |-> clicks + 1]
    ELSE click_loop(script, iteration + 1, clicks + 1)

\* The clicks made: none if the marker is there at the first look.
SignClicks(marker_first, script) ==
    IF marker_first THEN 0 ELSE click_loop(script, 0, 0).clicks

\* The way the block ends, in the terms of PlatformEnvs.
SignOutcome(marker_first, script, wait_raises) ==
    IF marker_first THEN "already"
    ELSE IF ~click_loop(script, 0, 0).signed THEN "clicked_fail"
    ELSE IF wait_raises THEN "clicked_ok_wait_raises"
    ELSE "clicked_ok"

(***************************************************************************)
(* main: the arguments, the totals of the report and the exit code.  A     *)
(* command-line argument is modelled by the list of pieces str.split(',')  *)
(* cuts it into; the pieces are the strings of ArgLists and FlagArgs.      *)
(***************************************************************************)
\* str.strip() on the pieces used: blanks at both ends are removed.
strip(piece) ==
    CASE piece = " " -> ""
      [] piece = " b " -> "b"
      [] OTHER -> piece

\* [u.strip() for u in arg.split(',') if u.strip()]
split_strip(arg) ==
    LET stripped == [i \in DOMAIN arg |-> strip(arg[i])]
        NonEmpty(u) == u # ""
    IN  SelectSeq(stripped, NonEmpty)

lower_Identity(piece) == piece

\* str.lower() on the pieces used.
lower(piece) ==
    CASE piece \in {"TRUE", "True"} -> "true"
      [] piece = "FALSE" -> "false"
      [] OTHER -> piece

\* sys.argv[3].lower() == 'true'
failure_exit_flag(arg) == [i \in DOMAIN arg |-> lower(arg[i])] = <<"true">>

Script == <<"jlc.py">>

\* The account and password arguments tried: one item, two items with
\* blanks around the second, an item and a blank one, the empty string.
ArgLists == {<<"a">>, <<"a", " b ">>, <<"a", " ">>, <<"">>}

\* The third arguments tried.
FlagArgs ==
    {<<"true">>, <<"TRUE">>, <<"True">>, <<"false">>, <<"">>, <<"true", "x">>}

\* The command lines tried: no argument, one, two or three.
ArgvInputs ==
    {<<Script>>}
        \cup {<<Script, u>> : u \in ArgLists}
        \cup {<<Script, u, p>> : u \in ArgLists, p \in ArgLists}
        \cup {<<Script, u, p, f>> : u \in ArgLists, p \in ArgLists,
                                    f \in FlagArgs}

\* A command line of n accounts without the third argument.
ArgvFor(n) ==
    LET items == IF n = 0 THEN <<"">> ELSE [i \in 1..n |-> "a"]
    IN  <<Script, items, items>>

\* The sum the report loop accumulates: a reward is added only if it is
\* strictly positive.
RECURSIVE TotalReward(_)
TotalReward(rewards) ==
    IF rewards = <<>>
    THEN 0
    ELSE (IF Head(rewards) > 0 THEN Head(rewards) ELSE 0)
             + TotalReward(Tail(rewards))

Shown_All(results) == results

\* The records whose details the report shows: those without password error.
Shown(results) ==
    LET NoPasswordError(r) == ~r.password_error
    IN  SelectSeq(results, NoPasswordError)

\* How the processing of an account may end, as far as the report and the
\* exit code look at it: the two success flags, the password error flag and
\* the two reward deltas.
AccountOutcomes ==
    [flags : {<<TRUE, TRUE, FALSE>>, <<FALSE, TRUE, FALSE>>,
              <<TRUE, FALSE, FALSE>>, <<FALSE, FALSE, FALSE>>,
              <<FALSE, FALSE, TRUE>>, <<TRUE, FALSE, TRUE>>},
     points_reward : (0 - MaxBalance)..MaxBalance,
     jindou_reward : (0 - MaxBalance)..MaxBalance]

FinalRecord(account_index, o) ==
    [NewMerged(account_index) EXCEPT
        !.oshwhub_success = o.flags[1], !.jindou_success = o.flags[2],
        !.password_error = o.flags[3],
        !.points_reward = o.points_reward, !.jindou_reward = o.jindou_reward]

InitAttempt ==
    /\ result = NewResult(1, 0, FALSE)
    /\ apc = "start"
    /\ platform_result = NewResult(1, 0, FALSE)
    /\ signed_status = "none"
    /\ attempt_client = NoClient
    /\ extraction = "not_reached"

InitClient ==
    /\ client = JLCClient("tok1", "sk1")
    /\ call = [op |-> "none"]

InitRun ==
    /\ total_accounts \in 0..NumAccounts
    /\ phase = IF total_accounts = 0 THEN "select" ELSE "tier1"
    /\ all_results = <<>>
    /\ account = 1
    /\ attempt = 0
    /\ merged_result = NewMerged(1)
    /\ merged_success = [oshwhub |-> FALSE, jindou |-> FALSE]
    /\ failed_accounts = <<>>
    /\ report = NoReport
    /\ hist = [a \in 1..total_accounts |-> NoHistory]
    /\ total_points_reward = 0
    /\ total_jindou_reward = 0
    /\ exit_code = <<>>

\* No sign_in_account call has been made and no browser runs.
InitBrowser ==
    /\ browsers = {}
    /\ created = 0
    /\ calls_made = 0
    /\ driver = 0
    /\ elp_driver = 0
    /\ restarts = 0
    /\ bpc = "idle"
    /\ outcome = "none"

\* The command line is read: the accounts are given, the third argument is
\* not.
InitArguments ==
    /\ argv = ArgvFor(total_accounts)
    /\ enable_failure_exit = FALSE

InitFunction == fcall = [op |-> "none"]

Init ==
    /\ InitRun /\ InitAttempt /\ InitClient /\ InitBrowser
    /\ InitArguments /\ InitFunction

\* The run of one account.
InitAccount ==
    /\ InitRun /\ total_accounts = 1 /\ InitAttempt /\ InitClient
    /\ InitBrowser /\ InitArguments /\ InitFunction

\* No run: one attempt or one client is exercised alone.
InitAlone ==
    /\ InitRun /\ total_accounts = 0 /\ InitAttempt /\ InitClient
    /\ InitBrowser /\ InitArguments /\ InitFunction

\* main is entered: nothing is read yet.
InitMain ==
    /\ argv \in ArgvInputs
    /\ phase = "parse"
    /\ total_accounts = 0
    /\ enable_failure_exit = FALSE
    /\ all_results = <<>>
    /\ account = 1
    /\ attempt = 0
    /\ merged_result = NewMerged(1)
    /\ merged_success = [oshwhub |-> FALSE, jindou |-> FALSE]
    /\ failed_accounts = <<>>
    /\ report = NoReport
    /\ hist = <<>>
    /\ total_points_reward = 0
    /\ total_jindou_reward = 0
    /\ exit_code = <<>>
    /\ InitAttempt /\ InitClient /\ InitBrowser /\ InitFunction

\* One iteration of the loop of process_single_account for the current
\* account: the attempt (r), the merge (m1, ms1) and, when the loop ends,
\* the return to main, which appends the record and moves to the next
\* account.
Tier1Attempt(envs) ==
    /\ phase = "tier1"
    /\ \E env \in envs :
       \E r \in {sign_in_account(account, attempt, FALSE, env)} :
       \E ms1 \in {IF r.password_error THEN merged_success
                   ELSE MergeSuccess(merged_success, r)} :
       \E m1 \in {IF r.password_error THEN MergePasswordError(merged_result)
                  ELSE MergeTier1(merged_result, merged_success, r)} :
         /\ hist' = [hist EXCEPT ![account] = Noted(@, r)]
         /\ IF \/ r.password_error
               \/ ~should_retry(ms1, m1.password_error)
               \/ attempt >= account_max_retries
            THEN /\ all_results' = Append(all_results, Finalize(m1, ms1))
                 /\ account' = account + 1
                 /\ attempt' = 0
                 /\ merged_result' = NewMerged(account + 1)
                 /\ merged_success' = [oshwhub |-> FALSE, jindou |-> FALSE]
                 /\ phase' = IF account = total_accounts
                             THEN "select" ELSE "tier1"
            ELSE /\ merged_result' = m1
                 /\ merged_success' = ms1
                 /\ attempt' = attempt + 1
                 /\ UNCHANGED <<all_results, account, phase>>
    /\ UNCHANGED <<total_accounts, failed_accounts, report>>
    /\ UNCHANGED <<attemptVars, clientVars, browserVars, mainVars, fcall>>

\* SelectFailed taken as soon as one account has been processed.
SelectFailed_Early ==
    /\ phase \in {"select", "tier1"}
    /\ all_results # <<>>
    /\ failed_accounts' = SelectFailedAccounts(all_results)
    /\ phase' = IF failed_accounts' = <<>> THEN "report" ELSE "final_retry"
    /\ UNCHANGED <<total_accounts, all_results, account, attempt,
                   merged_result, merged_success, report, hist>>
    /\ UNCHANGED <<attemptVars, clientVars, browserVars, mainVars, fcall>>

\* main, lines 1304-1308, and the selection at the start of
\* execute_final_retry_for_failed_accounts.
SelectFailed ==
    /\ phase = "select"
    /\ failed_accounts' = SelectFailedAccounts(all_results)
    /\ phase' = IF failed_accounts' = <<>> THEN "report" ELSE "final_retry"
    /\ UNCHANGED <<total_accounts, all_results, account, attempt,
                   merged_result, merged_success, report, hist>>
    /\ UNCHANGED <<attemptVars, clientVars, browserVars, mainVars, fcall>>

\* One iteration of the loop of execute_final_retry_for_failed_accounts:
\* the attempt (fr) for the next failed account and its merge.
FinalRetryAttempt(envs) ==
    /\ phase = "final_retry"
    /\ failed_accounts # <<>>
    /\ \E env \in envs :
       \E acc \in {Head(failed_accounts)} :
       \E fr \in {sign_in_account(acc.account_index,
                                  acc.previous_retry_count + 1, TRUE, env)} :
         /\ all_results' =
                [all_results EXCEPT ![acc.index + 1] =
                    MergeFinalRetry(@, fr, acc.previous_retry_count)]
         /\ hist' = [hist EXCEPT ![acc.account_index] = Noted(@, fr)]
    /\ failed_accounts' = Tail(failed_accounts)
    /\ phase' = IF failed_accounts' = <<>> THEN "report" ELSE "final_retry"
    /\ UNCHANGED <<total_accounts, account, attempt, merged_result,
                   merged_success, report>>
    /\ UNCHANGED <<attemptVars, clientVars, browserVars, mainVars, fcall>>

\* main, lines 1310-1428: the summary.
Report ==
    /\ phase = "report"
    /\ report' = Summary(all_results)
    /\ \E shown \in {Shown(all_results)} :
         /\ total_points_reward' =
                TotalReward([i \in DOMAIN shown |-> shown[i].points_reward])
         /\ total_jindou_reward' =
                TotalReward([i \in DOMAIN shown |-> shown[i].jindou_reward])
    /\ phase' = "done"
    /\ UNCHANGED <<total_accounts, all_results, account, attempt,
                   merged_result, merged_success, failed_accounts, hist>>
    /\ UNCHANGED <<argv, enable_failure_exit, exit_code, fcall>>
    /\ UNCHANGED <<attemptVars, clientVars, browserVars>>

ParseArguments_NoCountCheck ==
    /\ phase = "parse"
    /\ IF Len(argv) < 3
       THEN /\ exit_code' = Append(exit_code, 1)
            /\ phase' = "exited"
            /\ UNCHANGED <<total_accounts, enable_failure_exit>>
       ELSE /\ enable_failure_exit' =
                   (Len(argv) >= 4 /\ failure_exit_flag(argv[4]))
            /\ total_accounts' = Len(split_strip(argv[2]))
            /\ phase' = "process"
            /\ UNCHANGED exit_code
    /\ UNCHANGED <<argv, all_results, account, attempt, merged_result,
                   merged_success, failed_accounts, report, hist,
                   total_points_reward, total_jindou_reward, fcall>>
    /\ UNCHANGED <<attemptVars, clientVars, browserVars>>

\* main up to the loop over the accounts: the usage check, the two lists,
\* the failure-exit flag and the comparison of the two counts.
ParseArguments ==
    /\ phase = "parse"
    /\ IF Len(argv) < 3
       THEN /\ exit_code' = Append(exit_code, 1)
            /\ phase' = "exited"
            /\ UNCHANGED <<total_accounts, enable_failure_exit>>
       ELSE \E usernames \in {split_strip(argv[2])},
               passwords \in {split_strip(argv[3])} :
              /\ enable_failure_exit' =
                     (Len(argv) >= 4 /\ failure_exit_flag(argv[4]))
              /\ IF Len(usernames) # Len(passwords)
                 THEN /\ exit_code' = Append(exit_code, 1)
                      /\ phase' = "exited"
                      /\ UNCHANGED total_accounts
                 ELSE /\ total_accounts' = Len(usernames)
                      /\ phase' = "process"
                      /\ UNCHANGED exit_code
    /\ UNCHANGED <<argv, all_results, account, attempt, merged_result,
                   merged_success, failed_accounts, report, hist,
                   total_points_reward, total_jindou_reward, fcall>>
    /\ UNCHANGED <<attemptVars, clientVars, browserVars>>

\* The loop over the accounts and the final retry, by their result alone:
\* one record per account, in the order of the accounts.
ProcessAccounts ==
    /\ phase = "process"
    /\ \E o \in [1..total_accounts -> AccountOutcomes] :
         all_results' = [i \in 1..total_accounts |-> FinalRecord(i, o[i])]
    /\ phase' = "report"
    /\ UNCHANGED <<total_accounts, account, attempt, merged_result,
                   merged_success, failed_accounts, report, hist>>
    /\ UNCHANGED <<attemptVars, clientVars, browserVars, mainVars, fcall>>

Exit_IgnoresPasswordError ==
    /\ phase = "done"
    /\ \E environ \in MainEnvirons, net \in {AllDelivered} :
         fcall' = [op |-> "push_summary", environ |-> environ, net |-> net,
                   ret |-> push_summary(ReportLogs, environ, net)]
    /\ exit_code' =
           Append(exit_code,
                  IF enable_failure_exit /\ report.failed_accounts # <<>>
                  THEN 1 ELSE 0)
    /\ phase' = "exited"
    /\ UNCHANGED <<total_accounts, all_results, account, attempt,
                   merged_result, merged_success, failed_accounts, report,
                   hist, argv, enable_failure_exit, total_points_reward,
                   total_jindou_reward>>
    /\ UNCHANGED <<attemptVars, clientVars, browserVars>>

\* The end of main: the summary is pushed, then the exit code follows the
\* flag and the two lists of the report.  An exception out of push_summary
\* would end the program with code 1.
Exit ==
    /\ phase = "done"
    /\ \E environ \in MainEnvirons, net \in {AllDelivered} :
         /\ fcall' = [op |-> "push_summary", environ |-> environ,
                      net |-> net,
                      ret |-> push_summary(ReportLogs, environ, net)]
         /\ \E all_failed_accounts \in
                  {report.failed_accounts \o report.password_error_accounts} :
              exit_code' =
                  Append(exit_code,
                         IF fcall'.ret.raised THEN 1
                         ELSE IF enable_failure_exit
                                  /\ all_failed_accounts # <<>>
                         THEN 1 ELSE 0)
    /\ phase' = "exited"
    /\ UNCHANGED <<total_accounts, all_results, account, attempt,
                   merged_result, merged_success, failed_accounts, report,
                   hist, argv, enable_failure_exit, total_points_reward,
                   total_jindou_reward>>
    /\ UNCHANGED <<attemptVars, clientVars, browserVars>>

NextMain == ParseArguments \/ ProcessAccounts \/ Report \/ Exit

\* main from its entry to its exit, the processing of the accounts taken by
\* its result.
SpecMain == InitMain /\ [][NextMain]_vars

(***************************************************************************)
(* The stand-alone functions, each called once on inputs of its own.       *)
(***************************************************************************)
CallPushSummary ==
    /\ fcall.op = "none"
    /\ \E environ \in Environs, net \in Nets :
         fcall' = [op |-> "push_summary", environ |-> environ, net |-> net,
                   ret |-> push_summary(ReportLogs, environ, net)]
    /\ UNCHANGED <<runVars, attemptVars, clientVars, browserVars, mainVars>>

CallWithRetry ==
    /\ fcall.op = "none"
    /\ \E script \in FuncScripts :
         fcall' = [op |-> "with_retry", script |-> script,
                   ret |-> wrapper(script)]
    /\ UNCHANGED <<runVars, attemptVars, clientVars, browserVars, mainVars>>

CallPlatformSignIn ==
    /\ fcall.op = "none"
    /\ \E marker_first \in BOOLEAN, script \in ClickScripts,
          wait_raises \in BOOLEAN, gifts \in {<<>>, <<"gift">>} :
         fcall' = [op |-> "platform_sign_in", marker_first |-> marker_first,
                   script |-> script, wait_raises |-> wait_raises,
                   clicks |-> SignClicks(marker_first, script),
                   ret |-> PlatformSignIn(NewResult(1, 0, FALSE),
                              [sign |-> SignOutcome(marker_first, script,
                                                    wait_raises),
                               gifts |-> gifts])]
    /\ UNCHANGED <<runVars, attemptVars, clientVars, browserVars, mainVars>>

NextFunction == CallPushSummary \/ CallWithRetry \/ CallPlatformSignIn

SpecFunction == InitAlone /\ [][NextFunction]_vars

Next ==
    \/ Tier1Attempt(RunEnvs)
    \/ SelectFailed
    \/ FinalRetryAttempt(RunEnvs)
    \/ Report

Spec == Init /\ [][Next]_vars

NextAccount ==
    \/ Tier1Attempt(AccountEnvs)
    \/ SelectFailed
    \/ FinalRetryAttempt(AccountEnvs)
    \/ Report

SpecAccount == InitAccount /\ [][NextAccount]_vars

\* The program runs on as long as it has a step to take: every
\* sign_in_account call returns (its waits are bounded by timeouts) and the
\* sleeps between attempts are finite.
SpecAccountFair == SpecAccount /\ WF_vars(NextAccount)

(***************************************************************************)
(* One attempt on its own, phase by phase.                                 *)
(***************************************************************************)
\* sign_in_account, lines 698-829.
AttemptLogin ==
    /\ apc = "start"
    /\ \E e \in LoginEnvs :
         LET l == LoginPhase(result, e)
         IN  /\ result' = l.r
             /\ apc' = IF l.done THEN "returned" ELSE "logged_in"
    /\ UNCHANGED <<platform_result, signed_status, attempt_client, extraction>>
    /\ UNCHANGED <<runVars, clientVars, browserVars, mainVars, fcall>>

\* sign_in_account, lines 831-920.
AttemptPlatform ==
    /\ apc = "logged_in"
    /\ \E e \in PlatformEnvs :
         LET p == PlatformPhase(result, e)
         IN  /\ result' = p.r
             /\ platform_result' = p.r
             /\ signed_status' =
                    IF e.pre_sign_raises THEN "none"
                    ELSE PlatformSignIn(result, e).oshwhub_status
             /\ apc' = IF p.done THEN "returned" ELSE "platform_done"
    /\ UNCHANGED <<attempt_client, extraction>>
    /\ UNCHANGED <<runVars, clientVars, browserVars, mainVars, fcall>>

\* sign_in_account, lines 922-956.
AttemptGateway ==
    /\ apc = "platform_done"
    /\ \E e \in GatewayEnvs :
         LET g == GatewayPhase(result, e)
         IN  /\ result' = g.r
             /\ attempt_client' = g.client
             /\ extraction' = g.extraction
    /\ apc' = "returned"
    /\ UNCHANGED <<platform_result, signed_status>>
    /\ UNCHANGED <<runVars, clientVars, browserVars, mainVars, fcall>>

NextAttempt == AttemptLogin \/ AttemptPlatform \/ AttemptGateway

SpecAttempt == InitAlone /\ [][NextAttempt]_vars

(***************************************************************************)
(* One client on its own.                                                  *)
(***************************************************************************)
\* get_points called on a fresh client.
CallGetPoints ==
    /\ call.op = "none"
    /\ \E script \in PointScripts, reext \in ReExtractions :
         LET g == get_points(client, script, reext)
         IN  /\ client' = g.c
             /\ call' = [op |-> "get_points", ret |-> g.ret,
                         events |-> g.events, script |-> script]
    /\ UNCHANGED <<runVars, attemptVars, browserVars, mainVars, fcall>>

\* execute_full_process called on a fresh client.
CallExecuteFullProcess ==
    /\ call.op = "none"
    /\ \E env \in ClientEnvs :
         LET x == execute_full_process(client, env)
         IN  /\ client' = x.c
             /\ call' = [op |-> "execute_full_process", ret |-> x.ret,
                         env |-> env]
    /\ UNCHANGED <<runVars, attemptVars, browserVars, mainVars, fcall>>

\* check_sign_status called on a fresh client.
CallCheckSignStatus ==
    /\ call.op = "none"
    /\ \E reply \in PlainReplies \cup {Reply(200, TRUE, TRUE, 0, 0)} :
         LET k == check_sign_status(client, reply)
         IN  /\ client' = k.c
             /\ call' = [op |-> "check_sign_status", ret |-> k.ret,
                         reply |-> reply]
    /\ UNCHANGED <<runVars, attemptVars, browserVars, mainVars, fcall>>

\* sign_in called on a fresh client.
CallSignIn ==
    /\ call.op = "none"
    /\ \E reply \in PlainReplies \cup {Reply(200, TRUE, FALSE, 1, 0)},
          vreply \in PlainReplies :
         LET s == sign_in(client, reply, vreply)
         IN  /\ client' = s.c
             /\ call' = [op |-> "sign_in", ret |-> s.ret,
                         reply |-> reply, vreply |-> vreply]
    /\ UNCHANGED <<runVars, attemptVars, browserVars, mainVars, fcall>>

NextClient ==
    \/ CallGetPoints
    \/ CallExecuteFullProcess
    \/ CallCheckSignStatus
    \/ CallSignIn

SpecClient == InitAlone /\ [][NextClient]_vars

(***************************************************************************)
(* The browsers of sign_in_account calls made one after the other.         *)
(***************************************************************************)
\* Most sign_in_account calls followed.
MaxCalls == 2

\* max_restarts of ensure_login_page
elp_max_restarts == 5

\* How starting a browser ends: webdriver.Chrome returns and the script that
\* follows runs; webdriver.Chrome raises; the browser runs and execute_script
\* raises.
StartOutcomes == {"ok", "start_raises", "script_raises"}

\* How driver.quit() ends: the browser is gone, or quit raises and the
\* browser keeps running.
QuitOutcomes == {"ok", "raises"}

\* driver.quit() on driver d with outcome q.
Quit(bs, d, q) == IF q = "ok" THEN {b \in bs : b.id # d} ELSE bs

\* webdriver.Chrome(...) with outcome st: the n + 1st browser, created during
\* call k.
Started(bs, n, k, st) ==
    IF st = "start_raises" THEN bs
    ELSE bs \cup {[id |-> n + 1, attempt |-> k]}

\* What one pass of the loop of ensure_login_page meets: the page reached
\* ("login", "other", or a step of the try block raises) and the outcomes of
\* the quit and the start of the restart in the else branch and in the
\* except branch.
ElpEnvs ==
    [page : {"login", "other", "raises"},
     quit : QuitOutcomes, start : StartOutcomes,
     handler_quit : QuitOutcomes, handler_start : StartOutcomes]

\* ensure_login_page, lines 578-607: the except branch, entered with
\* restarts = r; driver d is the function's own variable.
ElpExcept(bs, n, d, r, k, e) ==
    LET r1  == r + 1
        bs1 == Quit(bs, d, e.handler_quit)
    IN  IF r1 >= elp_max_restarts
        THEN [browsers |-> bs, created |-> n, elp_driver |-> d,
              restarts |-> r1, ret |-> "False"]
        ELSE IF e.handler_start = "start_raises"
        THEN [browsers |-> bs1, created |-> n, elp_driver |-> d,
              restarts |-> r1, ret |-> "raised"]
        ELSE [browsers |-> Started(bs1, n, k, e.handler_start),
              created |-> n + 1, elp_driver |-> n + 1, restarts |-> r1,
              ret |-> IF e.handler_start = "ok" THEN "loop" ELSE "raised"]

\* ensure_login_page, lines 534-607: one pass of the while loop.  ret: "True"
\* or "False" returned, "raised" out of the function, "loop" for another
\* pass.
ElpIteration(bs, n, d, r, k, e) ==
    IF e.page = "login"
    THEN [browsers |-> bs, created |-> n, elp_driver |-> d, restarts |-> r,
          ret |-> "True"]
    ELSE IF e.page = "raises" THEN ElpExcept(bs, n, d, r, k, e)
    ELSE IF r + 1 >= elp_max_restarts
    THEN [browsers |-> bs, created |-> n, elp_driver |-> d,
          restarts |-> r + 1, ret |-> "False"]
    ELSE IF e.quit = "raises" THEN ElpExcept(bs, n, d, r + 1, k, e)
    ELSE IF e.start = "ok"
    THEN [browsers |-> Started(Quit(bs, d, "ok"), n, k, "ok"),
          created |-> n + 1, elp_driver |-> n + 1, restarts |-> r + 1,
          ret |-> "loop"]
    ELSE IF e.start = "start_raises"
    THEN ElpExcept(Quit(bs, d, "ok"), n, d, r + 1, k, e)
    ELSE ElpExcept(Started(Quit(bs, d, "ok"), n, k, e.start), n + 1, n + 1,
                   r + 1, k, e)

\* sign_in_account, lines 645-671: the call starts its browser, outside any
\* try block.  A call is made only if the one before returned: main and
\* process_single_account catch nothing.
StartBrowser ==
    /\ bpc = "idle"
    /\ outcome # "raised"
    /\ calls_made < MaxCalls
    /\ calls_made' = calls_made + 1
    /\ \E st \in StartOutcomes :
         /\ browsers' = Started(browsers, created, calls_made', st)
         /\ created' = IF st = "start_raises" THEN created ELSE created + 1
         /\ driver' = IF st = "start_raises" THEN driver ELSE created'
         /\ elp_driver' = driver'
         /\ bpc' = IF st = "ok" THEN "ensure_login_page" ELSE "idle"
         /\ outcome' = IF st = "ok" THEN "none" ELSE "raised"
    /\ restarts' = 0
    /\ UNCHANGED <<runVars, attemptVars, clientVars, mainVars, fcall>>

\* ensure_login_page, called at line 700 with sign_in_account's driver: one
\* pass of its loop.  However it ends (True, False, an exception caught at
\* line 958), sign_in_account goes on with its own driver variable as it
\* was: to the login steps after True, to its finally block otherwise.
EnsureLoginPage ==
    /\ bpc = "ensure_login_page"
    /\ \E e \in ElpEnvs :
       \E i \in {ElpIteration(browsers, created, elp_driver, restarts,
                              calls_made, e)} :
         /\ browsers' = i.browsers
         /\ created' = i.created
         /\ elp_driver' = i.elp_driver
         /\ restarts' = i.restarts
         /\ bpc' = IF i.ret = "loop" THEN "ensure_login_page"
                   ELSE IF i.ret = "True" THEN "login_steps"
                   ELSE "finally"
    /\ UNCHANGED <<calls_made, driver, outcome>>
    /\ UNCHANGED <<runVars, attemptVars, clientVars, mainVars, fcall>>

\* sign_in_account, lines 704-956: the steps after ensure_login_page
\* returned True; their commands go to sign_in_account's driver and wait,
\* and whatever they do the finally block follows.
LoginSteps ==
    /\ bpc = "login_steps"
    /\ bpc' = "finally"
    /\ UNCHANGED <<browsers, created, calls_made, driver, elp_driver,
                   restarts, outcome>>
    /\ UNCHANGED <<runVars, attemptVars, clientVars, mainVars, fcall>>

\* sign_in_account, lines 961-965: driver.quit() in the finally block, then
\* the return.
Teardown ==
    /\ bpc = "finally"
    /\ \E q \in QuitOutcomes :
         /\ browsers' = Quit(browsers, driver, q)
         /\ outcome' = IF q = "ok" THEN "returned" ELSE "raised"
    /\ bpc' = "idle"
    /\ UNCHANGED <<created, calls_made, driver, elp_driver, restarts>>
    /\ UNCHANGED <<runVars, attemptVars, clientVars, mainVars, fcall>>

NextBrowser == StartBrowser \/ EnsureLoginPage \/ LoginSteps \/ Teardown

SpecBrowser == InitAlone /\ [][NextBrowser]_vars
(***************************************************************************)
(* Properties.                                                             *)
(***************************************************************************)
InSeq(x, s) == \E i \in 1..Len(s) : s[i] = x

Count(x, s) == Cardinality({i \in 1..Len(s) : s[i] = x})

\* The merged record of account a as the run holds it: in all_results once
\* process_single_account has returned, merged_result while it runs, the
\* record it will start from before that.
Merged(a) ==
    IF a <= Len(all_results) THEN all_results[a]
    ELSE IF a = account THEN merged_result
    ELSE NewMerged(a)

\* The merged success flags of account a.
MergedSuccess(a) ==
    IF a <= Len(all_results)
    THEN [oshwhub |-> all_results[a].oshwhub_success,
          jindou |-> all_results[a].jindou_success]
    ELSE IF a = account THEN merged_success
    ELSE [oshwhub |-> FALSE, jindou |-> FALSE]

PlatformFields(m) ==
    <<m.oshwhub_status, m.initial_points, m.final_points, m.points_reward,
      m.reward_results>>

GatewayFields(m) ==
    <<m.jindou_status, m.initial_jindou, m.final_jindou, m.jindou_reward,
      m.has_jindou_reward>>

\* C1: once an attempt of an account has returned a password error, no
\* further sign_in_account call is made for that account, in tier 1 or in
\* the final retry.
C1_NoAttemptAfterPasswordError ==
    [][\A a \in 1..total_accounts :
          hist[a].pw_at # 0 => hist'[a].calls = hist[a].calls]_vars

\* Account 1 met the password error on its second attempt, with retries
\* left, and the run went on to the end, final retry of account 2 included.
C1_Witness ==
    /\ phase = "done"
    /\ total_accounts = 2
    /\ hist[1].pw_at = 2 /\ hist[1].calls = 2
    /\ hist[2].calls = account_max_retries + 2

\* C2: once a merged record has password_error, its status, points and
\* jindou fields never change again, whatever attempts follow on any account.
C2_FrozenAfterPasswordError ==
    [][\A a \in 1..total_accounts :
          Merged(a).password_error =>
              /\ PlatformFields(Merged(a))' = PlatformFields(Merged(a))
              /\ GatewayFields(Merged(a))' = GatewayFields(Merged(a))]_vars

\* Account 1 has the password error and still lacks the gateway success;
\* account 2 went through tier 1 and the final retry after that.
C2_Witness ==
    /\ phase = "done"
    /\ total_accounts = 2
    /\ all_results[1].password_error
    /\ ~all_results[1].jindou_success
    /\ hist[2].calls = account_max_retries + 2

\* C3: for each account and platform, once an attempt with success has been
\* merged, the merged success flag is true after every later attempt.
C3_MergeMonotonic ==
    \A a \in 1..total_accounts :
        /\ hist[a].first_oshwhub # 0 => MergedSuccess(a).oshwhub
        /\ hist[a].first_jindou # 0 => MergedSuccess(a).jindou

\* The first attempt of account 1 succeeded on the platform, the second one
\* ended in the password error (no success of either kind), and the merged
\* platform flag is still true.
C3_Witness ==
    /\ total_accounts >= 1
    /\ hist[1].first_oshwhub = 1
    /\ hist[1].pw_at = 2
    /\ hist[1].first_jindou = 0
    /\ MergedSuccess(1).oshwhub

\* The step is an attempt of account a with a platform (gateway) success the
\* merged record does not have yet.
NewOshwhubSuccess(a) ==
    /\ ~MergedSuccess(a).oshwhub
    /\ hist'[a].calls = hist[a].calls + 1
    /\ hist'[a].first_oshwhub = hist'[a].calls

NewJindouSuccess(a) ==
    /\ ~MergedSuccess(a).jindou
    /\ hist'[a].calls = hist[a].calls + 1
    /\ hist'[a].first_jindou = hist'[a].calls

\* The step is an attempt of account a that reports the password error.
PasswordErrorAttempt(a) ==
    /\ hist'[a].calls = hist[a].calls + 1
    /\ hist'[a].pw_at = hist'[a].calls

\* C4 as stated: the platform fields of a merged record change only in an
\* attempt with a platform success the record lacks, the gateway fields only
\* in an attempt with a gateway success the record lacks.
C4_OverwriteOnlyOnNewSuccess ==
    [][\A a \in 1..total_accounts :
          /\ PlatformFields(Merged(a))' # PlatformFields(Merged(a))
                => NewOshwhubSuccess(a)
          /\ GatewayFields(Merged(a))' # GatewayFields(Merged(a))
                => NewJindouSuccess(a)]_vars

\* C4: the platform fields of a merged record change only in an attempt with
\* a platform success the record lacks, or in an attempt that reports the
\* password error, which sets oshwhub_status to "password_error" and leaves
\* the other platform fields; the gateway fields change only in an attempt
\* with a gateway success the record lacks.
C4_OverwriteOnNewSuccessOrPasswordError ==
    [][\A a \in 1..total_accounts :
          /\ PlatformFields(Merged(a))' # PlatformFields(Merged(a))
                => \/ NewOshwhubSuccess(a)
                   \/ /\ PasswordErrorAttempt(a)
                      /\ PlatformFields(Merged(a))' =
                             [PlatformFields(Merged(a)) EXCEPT
                                 ![1] = "password_error"]
          /\ GatewayFields(Merged(a))' # GatewayFields(Merged(a))
                => NewJindouSuccess(a)]_vars

\* The account's first attempt brought a platform success with a points
\* delta, a later one the password error: the status was overwritten, the
\* points were kept.
C4_Witness ==
    /\ total_accounts = 1
    /\ hist[1].first_oshwhub = 1
    /\ hist[1].pw_at > 1
    /\ Merged(1).oshwhub_status = "password_error"
    /\ Merged(1).points_reward # 0

DeltaIdentity(r) ==
    /\ r.points_reward = r.final_points - r.initial_points
    /\ r.jindou_reward = r.final_jindou - r.initial_jindou

\* C5: every record returned by sign_in_account and every merged record has
\* points_reward = final_points - initial_points and
\* jindou_reward = final_jindou - initial_jindou, on every exit path.
C5_RewardDeltaIdentity ==
    /\ apc = "returned" => DeltaIdentity(result)
    /\ \A i \in 1..Len(all_results) : DeltaIdentity(all_results[i])
    /\ DeltaIdentity(merged_result)

\* The reply that answered check_sign_status in the run made check_sign_status
\* return True.
CheckReturnedTrue ==
    /\ call.op = "execute_full_process"
    /\ InSeq("check_sign_status", client.calls)
    /\ Succeeded(send_request(call.env.check))
    /\ call.env.check.haveSignIn

\* C6: in execute_full_process, if check_sign_status returns True, neither
\* sign_in nor receive_voucher is invoked in the run and sign_status reads
\* "already_signed".
C6_AlreadySignedSkipsSignIn ==
    CheckReturnedTrue =>
        /\ ~InSeq("sign_in", client.calls)
        /\ ~InSeq("receive_voucher", client.calls)
        /\ client.sign_status = "already_signed"

\* check_sign_status returned True, the run went on to the second balance
\* query and returned True, with a sign-in endpoint that would have answered.
C6_Witness ==
    /\ CheckReturnedTrue
    /\ call.ret
    /\ Succeeded(send_request(call.env.sign))
    /\ InSeq("calculate_jindou_difference", client.calls)

\* Two accounts; account 1 succeeds on both platforms on its first attempt;
\* account 2 succeeds on the platform on its first attempt, its gateway
\* sign-in fails on the attempts before attempt k and succeeds on attempt k.
TwoAccountScenario(k) ==
    /\ phase = "done"
    /\ total_accounts = 2
    /\ hist[1] = [calls |-> 1, pw_at |-> 0, first_oshwhub |-> 1,
                  first_jindou |-> 1]
    /\ hist[2] = [calls |-> k, pw_at |-> 0, first_oshwhub |-> 1,
                  first_jindou |-> k]

TwoAccountOutcome ==
    /\ all_results[1].retry_count = 0
    /\ all_results[2].is_final_retry
    /\ report.failed_accounts = <<>>
    /\ report.failed_oshwhub = <<>>
    /\ report.failed_jindou = <<>>

\* C7 as stated: when the gateway sign-in of account 2 fails on 3 attempts
\* and succeeds on the next, the results show account 1 with retry_count 0,
\* account 2 with is_final_retry and no account in the failed lists.
C7_SuccessOnFourthAttemptIsFinalRetry ==
    TwoAccountScenario(4) => TwoAccountOutcome

\* C7: when the gateway sign-in of account 2 fails on its 4 tier-1 attempts
\* and succeeds on the next attempt, the final retry, the results show
\* account 1 with retry_count 0, account 2 with is_final_retry and no account
\* in the failed lists.
C7_SuccessOnFifthAttemptIsFinalRetry ==
    TwoAccountScenario(5) => TwoAccountOutcome

C7_Witness == TwoAccountScenario(5)

\* C8: an account whose first attempt meets the password error gets exactly
\* one attempt, its merged oshwhub_status is "password_error", and the report
\* lists it among the password-error accounts and in none of the failed
\* lists.
C8_PasswordErrorOnFirstAttempt ==
    \A a \in 1..total_accounts :
        hist[a].pw_at = 1 =>
            /\ hist[a].calls = 1
            /\ Merged(a).oshwhub_status = "password_error"
            /\ phase = "done" =>
                /\ InSeq(a, report.password_error_accounts)
                /\ ~InSeq(a, report.failed_accounts)
                /\ ~InSeq(a, report.failed_oshwhub)
                /\ ~InSeq(a, report.failed_jindou)

\* The report of a run where account 1 met the password error on its first
\* attempt and account 2 failed to the end.
C8_Witness ==
    /\ phase = "done"
    /\ total_accounts = 2
    /\ hist[1].pw_at = 1
    /\ report.password_error_accounts = <<1>>
    /\ report.failed_accounts = <<2>>

\* C9: when the credential extraction of an attempt fails, jindou_status is
\* "token_failed", jindou_success is false, no JLCClient is constructed or
\* called, and the platform-side fields of the result are what the platform
\* phase left.
C9_TokenExtractionFailure ==
    (apc = "returned" /\ extraction = "failed") =>
        /\ result.jindou_status = "token_failed"
        /\ ~result.jindou_success
        /\ attempt_client = NoClient
        /\ PlatformFields(result) = PlatformFields(platform_result)
        /\ result.oshwhub_success = platform_result.oshwhub_success

\* An attempt that signed in on the platform with a points delta and then
\* found no credential.
C9_Witness ==
    /\ apc = "returned"
    /\ extraction = "failed"
    /\ result.oshwhub_success
    /\ result.points_reward # 0
    /\ ~result.token_extracted

\* The requests of the script that succeed.
Answered(script) ==
    {i \in 1..Len(script) : Succeeded(send_request(script[i]))}

Least(S) == CHOOSE i \in S : \A j \in S : i <= j

\* C10: get_points issues at most 5 balance requests, returns the balance of
\* the first that succeeds and 0 when all 5 fail, and re-navigates only
\* between two requests, at most 4 times.
C10_GetPointsBounded ==
    call.op = "get_points" =>
        LET ev == call.events
            ok == Answered(call.script)
        IN  /\ Count("request", ev) <= 5
            /\ Count("renav", ev) <= 4
            /\ ok # {} => /\ call.ret = call.script[Least(ok)].integralVoucher
                          /\ Count("request", ev) = Least(ok)
            /\ ok = {} => /\ call.ret = 0
                          /\ Count("request", ev) = 5
            /\ ev[1] = "request" /\ ev[Len(ev)] = "request"
            /\ \A i \in 1..(Len(ev) - 1) :
                   (ev[i] = "renav") # (ev[i + 1] = "renav")

\* All five requests failed: five requests, four re-navigations, 0 returned.
C10_Witness ==
    /\ call.op = "get_points"
    /\ Answered(call.script) = {}
    /\ Count("renav", call.events) = 4
    /\ call.ret = 0
    /\ client.headers.token = "tok2"

\* The gateway operations of the run, in the order they were invoked
\* (receive_voucher is a step of sign_in).
GatewayOperations ==
    LET Operation(op) == op # "receive_voucher"
    IN  SelectSeq(client.calls, Operation)

\* C11: a run of execute_full_process that returns True invokes
\* get_user_info, get_points, check_sign_status, sign_in only if the check
\* returned False, get_points, calculate_jindou_difference, in this order and
\* each once.
C11_OperationOrder ==
    (call.op = "execute_full_process" /\ call.ret) =>
        GatewayOperations =
            IF check_sign_status(client, call.env.check).ret = "False"
            THEN <<"get_user_info", "get_points", "check_sign_status",
                   "sign_in", "get_points", "calculate_jindou_difference">>
            ELSE <<"get_user_info", "get_points", "check_sign_status",
                   "get_points", "calculate_jindou_difference">>

\* A run that returned True after signing in and claiming the voucher, with
\* a balance that changed.
C11_Witness ==
    /\ call.op = "execute_full_process"
    /\ call.ret
    /\ InSeq("receive_voucher", client.calls)
    /\ client.jindou_reward # 0

\* C12: in execute_full_process, when get_user_info returns False,
\* check_sign_status returns None or sign_in returns False, the run returns
\* False, no later gateway operation is invoked and jindou_reward stays 0.
C12_AbortOnFailure ==
    call.op = "execute_full_process" =>
        LET e == call.env
        IN  IF ~get_user_info(client, e.user_info).ret
            THEN /\ ~call.ret
                 /\ GatewayOperations = <<"get_user_info">>
                 /\ client.jindou_reward = 0
            ELSE IF check_sign_status(client, e.check).ret = "None"
            THEN /\ ~call.ret
                 /\ GatewayOperations =
                        <<"get_user_info", "get_points", "check_sign_status">>
                 /\ client.jindou_reward = 0
            ELSE IF /\ check_sign_status(client, e.check).ret = "False"
                    /\ ~sign_in(client, e.sign, e.voucher).ret
            THEN /\ ~call.ret
                 /\ GatewayOperations =
                        <<"get_user_info", "get_points", "check_sign_status",
                          "sign_in">>
                 /\ client.jindou_reward = 0
            ELSE TRUE

\* sign_in returned False after a first balance of 1: a delta computed here
\* would not be 0.
C12_Witness ==
    /\ call.op = "execute_full_process"
    /\ ~call.ret
    /\ InSeq("sign_in", client.calls)
    /\ client.initial_jindou # 0
    /\ Succeeded(send_request(call.env.points2[1]))

\* C13: sign_in returns True without calling receive_voucher when the
\* gateway reports success with a reward amount; when it reports success
\* without one, receive_voucher is called exactly once, has_reward is set and
\* sign_in returns what receive_voucher returned, with status "voucher_ok" or
\* "voucher_failed"; when the gateway reports failure, receive_voucher is not
\* called and sign_in returns False.
C13_SignInVoucher ==
    call.op = "sign_in" =>
        LET data == send_request(call.reply)
            n    == Count("receive_voucher", client.calls)
            v    == Succeeded(send_request(call.vreply))
        IN  IF Succeeded(data) /\ data.gainNum # 0
            THEN call.ret /\ n = 0
            ELSE IF Succeeded(data)
            THEN /\ n = 1
                 /\ client.has_reward
                 /\ call.ret = v
                 /\ client.sign_status =
                        IF v THEN "voucher_ok" ELSE "voucher_failed"
            ELSE ~call.ret /\ n = 0

\* A sign-in without reward amount whose voucher claim failed.
C13_Witness ==
    /\ call.op = "sign_in"
    /\ Succeeded(send_request(call.reply))
    /\ ~Succeeded(send_request(call.vreply))
    /\ Count("receive_voucher", client.calls) = 1
    /\ ~call.ret

\* C14 as stated: sign_status is one of the seven values unknown, not signed,
\* already signed, sign-in succeeded, voucher claimed, voucher claim failed,
\* sign-in failed.
C14_SevenStatuses ==
    client.sign_status \in
        {"unknown", "not_signed", "already_signed", "sign_ok", "voucher_ok",
         "voucher_failed", "sign_failed"}

\* C14: sign_status is one of the seven values or "check_failed", which
\* check_sign_status sets when its request fails.
C14_EightStatuses ==
    client.sign_status \in
        {"unknown", "not_signed", "already_signed", "sign_ok", "voucher_ok",
         "voucher_failed", "sign_failed", "check_failed"}

\* A run of execute_full_process that stopped at a failed check.
C14_Witness ==
    /\ call.op = "execute_full_process"
    /\ client.sign_status = "check_failed"
    /\ ~call.ret

\* The step is a tier-1 attempt of account a that reports no password error.
Tier1AttemptWithoutPasswordError(a) ==
    /\ phase = "tier1"
    /\ a = account
    /\ hist'[a].calls = hist[a].calls + 1
    /\ hist'[a].pw_at = 0

\* C15: process_single_account makes at least 1 and at most 4 attempts and
\* terminates; after an attempt without password error it makes another one
\* if and only if the merged record still lacks the platform or the gateway
\* success and fewer than 3 retries have been made.
C15_AttemptsOfOneAccount ==
    /\ [](\A a \in 1..total_accounts :
             /\ (a <= Len(all_results) /\ phase \in {"tier1", "select"})
                   => hist[a].calls \in 1..4
             /\ (a = account /\ phase = "tier1")
                   => hist[a].calls = attempt /\ attempt <= 3)
    /\ [][\A a \in 1..total_accounts :
             Tier1AttemptWithoutPasswordError(a) =>
                 ((account' = a /\ phase' = "tier1")
                    <=> /\ \/ ~MergedSuccess(a)'.oshwhub
                           \/ ~MergedSuccess(a)'.jindou
                        /\ hist[a].calls < 3)]_vars
    /\ <>(Len(all_results) = total_accounts)

\* process_single_account returned after two attempts: the platform success
\* came from the first, the gateway success from the second.
C15_Witness ==
    /\ phase = "select"
    /\ total_accounts = 1
    /\ hist[1] = [calls |-> 2, pw_at |-> 0, first_oshwhub |-> 1,
                  first_jindou |-> 2]
    /\ all_results[1].oshwhub_success
    /\ all_results[1].jindou_success

\* The record lacks the platform or the gateway success.
Lacking(r) == ~r.oshwhub_success \/ ~r.jindou_success

\* C16: in the final-retry pass every account that after tier 1 lacks a
\* success and has no password error gets exactly one more attempt, every
\* other account none, and the accounts to retry are fixed when the pass
\* starts.
C16_FinalRetryOncePerFailedAccount ==
    /\ [][\A a \in 1..total_accounts :
             (phase = "final_retry" /\ hist'[a].calls # hist[a].calls) =>
                 /\ hist'[a].calls = hist[a].calls + 1
                 /\ ~all_results[a].is_final_retry
                 /\ all_results'[a].is_final_retry
                 /\ Lacking(all_results[a])
                 /\ ~all_results[a].password_error]_vars
    /\ [][phase = "final_retry" =>
             failed_accounts' = Tail(failed_accounts)]_vars
    /\ [](\A a \in 1..Len(all_results) :
             IF phase \in {"tier1", "select"}
             THEN ~all_results[a].is_final_retry
             ELSE (phase \in {"report", "done"}
                   /\ ~all_results[a].is_final_retry)
                      => \/ ~Lacking(all_results[a])
                         \/ all_results[a].password_error)

\* The end of a run where account 1 failed tier 1 and was retried once and
\* account 2, with a password error, was not.
C16_Witness ==
    /\ phase = "done"
    /\ total_accounts = 2
    /\ hist[1].calls = 5 /\ all_results[1].is_final_retry
    /\ hist[2].pw_at # 0 /\ ~all_results[2].is_final_retry
    /\ Lacking(all_results[2])

\* C17: no final-retry attempt is made before the tier-1 processing of every
\* account has finished, and an account's first attempt is made only after
\* the tier-1 processing of every account before it has returned.
C17_TiersNotInterleaved ==
    /\ [](\A a \in 1..total_accounts :
             hist[a].calls > 0 =>
                 \A k \in 1..(a - 1) : k <= Len(all_results))
    /\ [][\A a \in 1..total_accounts :
             hist'[a].calls # hist[a].calls =>
                 IF a <= Len(all_results)
                 THEN /\ Len(all_results) = total_accounts
                      /\ all_results'[a].is_final_retry
                 ELSE /\ a = Len(all_results) + 1
                      /\ \A b \in 1..Len(all_results) :
                             ~all_results[b].is_final_retry]_vars

\* Both accounts used their four tier-1 attempts; account 1 has had its
\* final retry, account 2 is waiting for it.
C17_Witness ==
    /\ phase = "final_retry"
    /\ total_accounts = 2
    /\ hist[1].calls = 5
    /\ hist[2].calls = 4
    /\ Len(failed_accounts) = 1

\* C18: at most one browser is alive at a time: no browser created during
\* one sign_in_account call is still running when the browser of another
\* call is created.
C18_OneBrowserAtATime ==
    \A b1, b2 \in browsers : b1.attempt = b2.attempt

\* C19: when sign_in_account returns, every browser created during the call
\* has been quit.
C19_TeardownOnReturn ==
    (bpc = "idle" /\ outcome = "returned") =>
        \A b \in browsers : b.attempt # calls_made

\* C20: sign_in_account always returns its record and never raises.
C20_NeverRaises == outcome # "raised"

\* C21: apart from the password error, an attempt returns before its later
\* phases only on one of three failures, login input not found, login button
\* not found, redirect timeout, each with its status; a failure of any other
\* step lets the flow go on to the following phases.
C21_OnlyThreeAborts ==
    [][(apc \in {"start", "logged_in"} /\ apc' = "returned"
           /\ ~result'.password_error)
          => result'.oshwhub_status \in {"login_failed", "jump_failed"}]_vars

\* The command line main refuses: fewer than two arguments, or as many
\* usernames as passwords is not the case.
ArgumentsRefused ==
    \/ Len(argv) < 3
    \/ Len(split_strip(argv[2])) # Len(split_strip(argv[3]))

\* C22: when fewer than two arguments are given, or the number of usernames
\* differs from the number of passwords, main exits with code 1 and no
\* account is processed.
C22_RefusedArguments ==
    (phase # "parse" /\ ArgumentsRefused)
        => /\ phase = "exited"
           /\ exit_code = <<1>>
           /\ all_results = <<>>
           /\ report = NoReport

C22_Witness ==
    /\ phase = "exited"
    /\ exit_code = <<1>>
    /\ Len(argv) >= 3
    /\ Len(split_strip(argv[2])) = 2
    /\ Len(split_strip(argv[3])) = 1

\* An account that is still failed or is a password-error account.
FailedOrPasswordError(r) ==
    ~r.oshwhub_success \/ ~r.jindou_success \/ r.password_error

\* C23: after all processing main exits with code 1 if and only if the
\* failure-exit flag is enabled and some account is still failed or is a
\* password-error account; otherwise it exits with code 0.
C23_ExitCode ==
    (phase = "exited" /\ fcall.op = "push_summary")
        => exit_code =
               <<IF /\ enable_failure_exit
                    /\ \E i \in DOMAIN all_results :
                           FailedOrPasswordError(all_results[i])
                 THEN 1 ELSE 0>>

C23_Witness ==
    /\ phase = "exited"
    /\ report # NoReport
    /\ exit_code = <<1>>
    /\ \E i \in DOMAIN all_results : all_results[i].password_error
    /\ \A i \in DOMAIN all_results :
           \/ all_results[i].password_error
           \/ all_results[i].oshwhub_success /\ all_results[i].jindou_success

\* C24 (as the code has it): once the arguments are read, the failure-exit
\* flag is enabled exactly when a third argument is given and is "true" in
\* any letter case ("true", "TRUE", "True"); it is disabled when the argument
\* is absent or is any other string.
C24_FlagCaseInsensitive ==
    phase # "parse"
        => (enable_failure_exit
               <=> /\ Len(argv) >= 4
                   /\ argv[4] \in {<<"true">>, <<"TRUE">>, <<"True">>})

C24_Witness ==
    /\ phase # "parse"
    /\ Len(argv) >= 4
    /\ argv[4] = <<"TRUE">>
    /\ enable_failure_exit

\* C24 (as stated): the failure-exit flag is enabled only when the third
\* argument is exactly "true"; it is disabled when the argument is absent or
\* is any other string, "TRUE" and "True" included.
C24_FlagExactlyTrue ==
    phase # "parse"
        => (enable_failure_exit
               <=> (Len(argv) >= 4 /\ argv[4] = <<"true">>))

\* The units of reward the accounts without password error gained: the pairs
\* of an account and a unit below or at its strictly positive delta.
GainedPoints ==
    {<<i, k>> \in (DOMAIN all_results) \X (1..MaxBalance) :
        ~all_results[i].password_error /\ k <= all_results[i].points_reward}

GainedJindou ==
    {<<i, k>> \in (DOMAIN all_results) \X (1..MaxBalance) :
        ~all_results[i].password_error /\ k <= all_results[i].jindou_reward}

\* C25: the totals of the report are the sums of the strictly positive
\* points_reward and jindou_reward of the accounts without password error; a
\* negative or zero delta changes no total.
C25_ReportTotals ==
    phase \in {"done", "exited"}
        => /\ total_points_reward = Cardinality(GainedPoints)
           /\ total_jindou_reward = Cardinality(GainedJindou)

C25_Witness ==
    /\ phase = "done"
    /\ Len(all_results) = 2
    /\ ~all_results[1].password_error /\ all_results[1].points_reward < 0
    /\ all_results[2].password_error /\ all_results[2].points_reward > 0
    /\ all_results[1].jindou_reward > 0
    /\ total_points_reward = 0
    /\ total_jindou_reward = 1

\* C26: push_summary attempts delivery on every channel whose configuration
\* is present and on no channel whose configuration is absent; a delivery
\* that raises or is answered by something other than 200 on one channel
\* prevents the attempt on no later channel and does not raise out of
\* push_summary.
C26_EveryConfiguredChannel ==
    fcall.op = "push_summary"
        => /\ \A ch \in ChannelSet :
                  InSeq(ch, fcall.ret.attempted)
                      <=> (\A v \in ChannelVars(ch) : fcall.environ[v] # "")
           /\ ~fcall.ret.raised

C26_Witness ==
    /\ fcall.op = "push_summary"
    /\ fcall.net["telegram"] = "raises"
    /\ fcall.net["custom"] = "ok"
    /\ fcall.environ["TELEGRAM_BOT_TOKEN"] # ""
    /\ fcall.environ["TELEGRAM_CHAT_ID"] # ""
    /\ fcall.environ["DINGTALK_WEBHOOK"] = ""
    /\ fcall.environ["CUSTOM_WEBHOOK"] # ""
    /\ InSeq("telegram", fcall.ret.attempted)
    /\ InSeq("custom", fcall.ret.attempted)

\* The invocations, among the first five, that return a value.
Returning(script) ==
    {i \in 1..5 : script[i] \notin {"None", "raises"}}

\* C27: a function wrapped by with_retry is invoked at most 5 times per
\* call; the wrapper returns the first result that is not None and stops
\* calling, takes an exception as a None result, returns None after 5
\* invocations without result, and never raises.
C27_WithRetry ==
    fcall.op = "with_retry"
        => /\ fcall.ret.invocations <= 5
           /\ ~fcall.ret.raised
           /\ IF Returning(fcall.script) = {}
              THEN fcall.ret.ret = "None" /\ fcall.ret.invocations = 5
              ELSE /\ fcall.ret.ret = fcall.script[Least(Returning(fcall.script))]
                   /\ fcall.ret.invocations = Least(Returning(fcall.script))

C27_Witness ==
    /\ fcall.op = "with_retry"
    /\ fcall.script[1] = "raises"
    /\ fcall.script[2] = "None"
    /\ fcall.script[3] = "v1"
    /\ fcall.script[4] = "v2"
    /\ fcall.ret.ret = "v1"
    /\ fcall.ret.invocations = 3

\* The marker is observed after a click in one of the first five iterations.
MarkerAfterClick(script) == \E i \in 1..5 : script[i] = "clicked_marker"

\* C28: if the marker is present at the first look the sign button is never
\* clicked and the result is success with status already-signed; otherwise
\* the button is clicked at most 5 times, success and the status sign-ok are
\* reported only if the marker is observed after a click, and if it is not
\* the status is sign-failed with success false.
C28_PlatformSignIn ==
    fcall.op = "platform_sign_in"
        => IF fcall.marker_first
           THEN /\ fcall.clicks = 0
                /\ fcall.ret.oshwhub_success
                /\ fcall.ret.oshwhub_status = "already_signed"
           ELSE /\ fcall.clicks <= 5
                /\ fcall.ret.oshwhub_success => MarkerAfterClick(fcall.script)
                /\ fcall.ret.oshwhub_status = "sign_ok"
                       => (fcall.ret.oshwhub_success
                              /\ MarkerAfterClick(fcall.script))
                /\ ~MarkerAfterClick(fcall.script)
                       => (fcall.ret.oshwhub_status = "sign_failed"
                              /\ ~fcall.ret.oshwhub_success)

C28_Witness ==
    /\ fcall.op = "platform_sign_in"
    /\ ~fcall.marker_first
    /\ fcall.script[1] = "clicked_no_marker"
    /\ fcall.script[2] = "no_click"
    /\ fcall.script[3] = "clicked_marker"
    /\ fcall.clicks = 2
    /\ fcall.ret.oshwhub_success
    /\ fcall.ret.oshwhub_status = "sign_ok"

\* C29 (as the code has it): a JLCClient is constructed only when both the
\* access token and the secretkey are non-empty, and its two headers are
\* non-empty over its lifetime; they are the values given at construction
\* until a failed balance request of get_points re-extracts the credentials,
\* which replaces a header by the re-extracted value when that is non-empty.
C29_HeadersNeverEmpty ==
    attempt_client # NoClient
        => /\ extraction = "ok"
           /\ result.token_extracted /\ result.secretkey_extracted
           /\ attempt_client.headers.token \in {"tok1", "tok2"}
           /\ attempt_client.headers.secretkey = "sk1"
           /\ attempt_client.headers.token = "tok2"
                  => InSeq("get_points", attempt_client.calls)

C29_Witness ==
    /\ attempt_client # NoClient
    /\ attempt_client.headers.token = "tok2"
    /\ attempt_client.headers.secretkey = "sk1"
    /\ result.jindou_success

\* C29 (as stated): a JLCClient is constructed only when both credentials
\* are non-empty, and its headers are the non-empty values fixed at
\* construction: they are never changed afterwards.
C29_HeadersFixedAtConstruction ==
    attempt_client # NoClient
        => /\ result.token_extracted /\ result.secretkey_extracted
           /\ attempt_client.headers = JLCClient("tok1", "sk1").headers

\* The balance requests of the script all fail.
Exhausted(script) == Answered(script) = {}

\* C30: a failed balance query never makes the gateway flow fail: when
\* get_user_info succeeds and check_sign_status returns True, or returns
\* False and sign_in succeeds, execute_full_process returns True, also when
\* both get_points calls exhausted their retries, and then the two balances
\* are 0.
C30_BalanceFailureTolerated ==
    call.op = "execute_full_process" =>
        LET e == call.env
        IN  (/\ get_user_info(client, e.user_info).ret
             /\ \/ check_sign_status(client, e.check).ret = "True"
                \/ /\ check_sign_status(client, e.check).ret = "False"
                   /\ sign_in(client, e.sign, e.voucher).ret)
                => /\ call.ret
                   /\ Exhausted(e.points1) => client.initial_jindou = 0
                   /\ Exhausted(e.points2) => client.final_jindou = 0
                   /\ (Exhausted(e.points1) /\ Exhausted(e.points2))
                          => client.jindou_reward = 0

C30_Witness ==
    /\ call.op = "execute_full_process"
    /\ call.ret
    /\ Exhausted(call.env.points1)
    /\ Exhausted(call.env.points2)
    /\ client.initial_jindou = 0
    /\ client.final_jindou = 0
    /\ Count("get_points", client.calls) = 2

\* C31: every account selected for the final-retry pass has made exactly 4
\* tier-1 attempts and its merged retry_count is 3; after its final-retry
\* attempt its record has retry_count 4 and is_final_retry true, whatever
\* the outcome of the attempt; retry_count never exceeds 4 and no account
\* makes more than 5 attempts.
C31_RetryCounts ==
    /\ \A i \in 1..Len(failed_accounts) :
           /\ hist[failed_accounts[i].account_index].calls = 4
           /\ failed_accounts[i].previous_retry_count = 3
           /\ all_results[failed_accounts[i].index + 1].retry_count = 3
           /\ ~all_results[failed_accounts[i].index + 1].is_final_retry
    /\ \A a \in 1..Len(all_results) :
           all_results[a].is_final_retry
               => (all_results[a].retry_count = 4 /\ hist[a].calls = 5)
    /\ \A a \in 1..total_accounts :
           Merged(a).retry_count <= 4 /\ hist[a].calls <= 5

C31_Witness ==
    /\ phase = "done"
    /\ \E a \in 1..Len(all_results) :
           /\ all_results[a].is_final_retry
           /\ all_results[a].password_error
           /\ all_results[a].retry_count = 4
           /\ hist[a].calls = 5
    /\ \E a \in 1..Len(all_results) :
           /\ all_results[a].is_final_retry
           /\ ~all_results[a].password_error
           /\ Lacking(all_results[a])

\* C32: in every record sign_in_account returns, oshwhub_success true
\* implies that oshwhub_status is already-signed or sign-ok; a true success
\* flag never comes with a failure status.
C32_SuccessHasSuccessStatus ==
    (apc = "returned" /\ result.oshwhub_success)
        => result.oshwhub_status \in {"already_signed", "sign_ok"}

\* C33: the merged record never carries a failure status of an attempt:
\* merged oshwhub_status is unknown, password-error or the status of the
\* first attempt with platform success, merged jindou_status is unknown or
\* the status of the first attempt with gateway success; an account whose
\* every attempt failed token extraction keeps jindou_status unknown.
C33_NoFailureStatusMerged ==
    \A a \in 1..total_accounts :
        /\ Merged(a).oshwhub_status \in
               {"unknown", "password_error", "already_signed", "sign_ok"}
        /\ Merged(a).jindou_status \in
               {"unknown", "already_signed", "sign_ok", "voucher_ok"}

\* C34: the return value of execute_full_process and the final sign_status
\* agree: True only with already-signed, sign-ok or voucher-ok, False only
\* with unknown, check-failed, sign-failed or voucher-failed; the status is
\* never not-signed at the end; in a successful run has_reward is true
\* exactly when the status is voucher-ok.
C34_ReturnAgreesWithStatus ==
    call.op = "execute_full_process"
        => /\ call.ret => client.sign_status \in
                              {"already_signed", "sign_ok", "voucher_ok"}
           /\ ~call.ret => client.sign_status \in
                               {"unknown", "check_failed", "sign_failed",
                                "voucher_failed"}
           /\ client.sign_status # "not_signed"
           /\ call.ret =>
                  (client.has_reward <=> client.sign_status = "voucher_ok")

C34_Witness ==
    /\ call.op = "execute_full_process"
    /\ call.ret
    /\ client.sign_status = "voucher_ok"
    /\ client.has_reward
    /\ InSeq("receive_voucher", client.calls)

\* The accounts both sequences list.
Common(s, t) == {a \in 1..total_accounts : InSeq(a, s) /\ InSeq(a, t)}

\* C35: in the final report the password-error list is disjoint from the
\* failed-account lists, and for each platform the accounts counted as
\* successful, the accounts of the platform's failed list and the
\* password-error accounts add up to the total number of accounts.
C35_ReportPartition ==
    (phase \in {"done", "exited"} /\ fcall.op \in {"none", "push_summary"})
        => /\ Common(report.password_error_accounts,
                     report.failed_accounts) = {}
           /\ Common(report.password_error_accounts,
                     report.failed_oshwhub) = {}
           /\ Common(report.password_error_accounts,
                     report.failed_jindou) = {}
           /\ report.oshwhub_success_count + Len(report.failed_oshwhub)
                  + Len(report.password_error_accounts) = total_accounts
           /\ report.jindou_success_count + Len(report.failed_jindou)
                  + Len(report.password_error_accounts) = total_accounts

C35_Witness ==
    /\ phase = "done"
    /\ total_accounts = 2
    /\ all_results[1].password_error /\ all_results[1].oshwhub_success
    /\ ~all_results[2].password_error /\ ~all_results[2].oshwhub_success
    /\ all_results[2].jindou_success
    /\ report.password_error_accounts = <<1>>
    /\ report.failed_oshwhub = <<2>>
    /\ report.failed_jindou = <<>>
    /\ report.oshwhub_success_count = 0
    /\ report.jindou_success_count = 1

\* C36: sign_in_account never issues a command to a browser instance that
\* has been quit: when ensure_login_page returned True, after any number of
\* restarts, the login steps that follow run on a live instance, the one
\* that reached the login page.
C36_LoginStepsOnLiveBrowser ==
    bpc = "login_steps"
        => /\ \E b \in browsers : b.id = driver
           /\ driver = elp_driver

\* C37: when the final-retry attempt of an account reports password error,
\* only password_error, oshwhub_status, nickname, is_final_retry and
\* retry_count of its record are written, every other field is left as it
\* was, and the account, which was in the failed list, is reported in the
\* password-error list and in no failed list.
C37_FinalRetryPasswordErrorFrame ==
    /\ [][(phase = "final_retry" /\ all_results'[1].password_error)
             => /\ all_results'[1] =
                       [all_results[1] EXCEPT
                           !.password_error = TRUE,
                           !.oshwhub_status = "password_error",
                           !.nickname = "unknown",
                           !.is_final_retry = TRUE,
                           !.retry_count = all_results[1].retry_count + 1]
                /\ Head(failed_accounts).account_index = 1
                /\ Lacking(all_results[1])
                /\ ~all_results[1].password_error]_vars
    /\ []((phase = "done" /\ all_results[1].password_error)
             => /\ report.password_error_accounts = <<1>>
                /\ report.failed_accounts = <<>>
                /\ report.failed_oshwhub = <<>>
                /\ report.failed_jindou = <<>>)

C37_Witness ==
    /\ phase = "done"
    /\ all_results[1].is_final_retry
    /\ all_results[1].password_error
    /\ all_results[1].oshwhub_success
    /\ all_results[1].points_reward # 0
    /\ all_results[1].token_extracted
    /\ all_results[1].nickname = "unknown"
    /\ all_results[1].jindou_status = "unknown"

\* C38: within one attempt, once the login redirect has succeeded, a platform
\* sign-in that ends with status "sign_failed" or "sign_exception" is
\* followed by the gateway phase of the same attempt: the step in which
\* lines 855-904 leave one of these statuses takes the attempt on to the
\* gateway navigation and never returns from sign_in_account.
C38_GatewayFollowsFailedSignIn ==
    [][(/\ apc = "logged_in"
        /\ signed_status' \in {"sign_failed", "sign_exception"})
       => apc' = "platform_done"]_vars

====
